---- MODULE Spec2Model ----
(***************************************************************************)
(* notion-pull: the traversal engine of src/notion/traversal.ts            *)
(* (createTraversalService / traverse, buildPageNode,                      *)
(* fetchBlocksRecursively, extractChildPages, withRetries) together with   *)
(* the p-limit handler pool it dispatches page handlers through.           *)
(***************************************************************************)
EXTENDS Integers, Sequences, FiniteSets, TLC

(***************************************************************************)
(* Bounds of the model                                                     *)
(***************************************************************************)
\* number of results the remote API returns per list/search response
ApiPageSize == 2
\* largest configured handler concurrency that is explored (0..MaxConcurrency)
MaxConcurrency == 2

(***************************************************************************)
(* Program constants                                                       *)
(***************************************************************************)
MAX_RETRIES == 3
INITIAL_DELAY_MS == 500

NETWORK_ERROR_CODES ==
    {"ETIMEDOUT", "ECONNRESET", "ENOTFOUND", "EAI_AGAIN", "ECONNREFUSED",
     "EPIPE", "EHOSTUNREACH", "ERR_SOCKET_TIMEOUT"}

(***************************************************************************)
(* Ids.  A remote id is 32 hex characters with or without hyphens; the     *)
(* model keeps the hex content, whether the text carries hyphens, and      *)
(* whether the stripped text is 32 characters long.                        *)
(***************************************************************************)
Dashed(h) == [hex |-> h, dashed |-> TRUE, full |-> TRUE]
Plain(h) == [hex |-> h, dashed |-> FALSE, full |-> TRUE]
\* the undefined / empty rootPageId
NoRoot == [hex |-> "", dashed |-> FALSE, full |-> FALSE]

\* keeps the id as it was given
normalizeIdKeeps(id) == id

normalizeId(id) == IF id.full THEN [id EXCEPT !.dashed = FALSE] ELSE id

formatId(id) == IF id.full THEN [id EXCEPT !.dashed = TRUE] ELSE id

RECURSIVE Pow2(_)
Pow2(n) == IF n <= 0 THEN 1 ELSE 2 * Pow2(n - 1)

Min(a, b) == IF a < b THEN a ELSE b

Max(a, b) == IF a > b THEN a ELSE b

(***************************************************************************)
(* Text.  A string is the sequence of its characters; a file system path   *)
(* is the sequence of its components.                                      *)
(***************************************************************************)
\* the characters [\\/:"*?<>|] of sanitizeSegments and sanitizeFileName
IllegalChars == {"\\", "/", ":", "\"", "*", "?", "<", ">", "|"}

\* the characters \s matches
Whitespace == {" ", "\t", "\n"}

RECURSIVE StripLeft(_, _)
\* s without its longest prefix of characters of set
StripLeft(s, set) ==
    IF s # <<>> /\ Head(s) \in set THEN StripLeft(Tail(s), set) ELSE s

RECURSIVE StripRight(_, _)
\* s without its longest suffix of characters of set
StripRight(s, set) ==
    IF s # <<>> /\ s[Len(s)] \in set THEN StripRight(SubSeq(s, 1, Len(s) - 1), set) ELSE s

RECURSIVE ReplaceRuns(_, _, _)
\* s.replace(/[set]+/g, by): every maximal run of characters of set becomes by
ReplaceRuns(s, set, by) ==
    IF s = <<>> THEN <<>>
    ELSE IF Head(s) \in set THEN by \o ReplaceRuns(StripLeft(Tail(s), set), set, by)
    ELSE <<Head(s)>> \o ReplaceRuns(Tail(s), set, by)

\* String.prototype.trim
Trim(s) == StripRight(StripLeft(s, Whitespace), Whitespace)

(***************************************************************************)
(* PagePathPlanner (src/output/pathPlanner.ts)                             *)
(***************************************************************************)
Untitled == <<"U", "n", "t", "i", "t", "l", "e", "d">>

UntitledPage == Untitled \o <<" ", "P", "a", "g", "e">>

MdExtension == <<".", "m", "d">>

\* the callback of segments.map in sanitizeSegments; last: index is the last one
sanitizeSegment(segment, last) ==
    LET trimmed == Trim(segment)
        noIllegal == ReplaceRuns(trimmed, IllegalChars, <<"-">>)
        oneSpace == ReplaceRuns(noIllegal, Whitespace, <<" ">>)
        noDots == StripRight(oneSpace, {"."})
        sanitized == StripRight(StripLeft(noDots, {"-"}), {"-"})
    IN IF Len(sanitized) = 0
       THEN (IF last THEN UntitledPage ELSE Untitled)
       ELSE sanitized

sanitizeSegments(segments) ==
    [index \in 1..Len(segments) |->
        sanitizeSegment(segments[index], index = Len(segments))]

\* config.outDir, the baseDir of the planner
BaseDir == <<<<"o", "u", "t">>>>

RECURSIVE Normalize(_, _)
\* path.normalize on components: "." is dropped, ".." removes the component
\* before it (and stays when there is none left to remove)
Normalize(done, rest) ==
    IF rest = <<>> THEN done
    ELSE IF Head(rest) = <<".">> THEN Normalize(done, Tail(rest))
    ELSE IF Head(rest) = <<".", ".">> /\ done # <<>> /\ done[Len(done)] # <<".", ".">>
         THEN Normalize(SubSeq(done, 1, Len(done) - 1), Tail(rest))
    ELSE Normalize(Append(done, Head(rest)), Tail(rest))

\* path.join(...components)
PathJoin(components) == Normalize(<<>>, components)

\* gives every page a directory of its own
needsOwnDirectoryAlways(page) == TRUE

\* gives a directory only to the pages with child pages
needsOwnDirectoryForChildren(page) == page.hasChildPages

needsOwnDirectory(page) == page.hasChildPages \/ Len(page.path) = 0

resolve(page) ==
    LET normalizedSegments == sanitizeSegments(Append(page.path, page.title))
        fileBaseName == IF Len(normalizedSegments) > 0
                        THEN normalizedSegments[Len(normalizedSegments)]
                        ELSE page.id
        ancestorSegments == SubSeq(normalizedSegments, 1, Len(normalizedSegments) - 1)
        directorySegments == IF needsOwnDirectory(page)
                             THEN Append(ancestorSegments, fileBaseName)
                             ELSE ancestorSegments
        directory == IF Len(directorySegments) > 0
                     THEN PathJoin(BaseDir \o directorySegments)
                     ELSE BaseDir
        fileName == fileBaseName \o MdExtension
    IN [directory |-> directory,
        fileName |-> fileName,
        filePath |-> PathJoin(Append(directory, fileName)),
        directorySegments |-> directorySegments,
        fileBaseName |-> fileBaseName]

(***************************************************************************)
(* The remote workspace (the input of a run).  kids[h] lists the blocks    *)
(* the API returns for "list children of h"; a child_page block has the id *)
(* of its page, so kids of a page id is the content of the page.           *)
(***************************************************************************)
\* the image blocks of the workspace with media
MediaHexes == {"i1", "i2", "i3", "i4"}

Hexes == {"A", "B", "C", "G", "p1", "t1"} \cup MediaHexes

NoKids == [h \in Hexes |-> <<>>]

PlainTitles == [h \in Hexes |-> h]

PageKinds ==
    [h \in Hexes |-> IF h \in {"p1", "t1"} THEN "paragraph"
                     ELSE IF h \in MediaHexes THEN "image"
                     ELSE "child_page"]

\* a three-level tree: A contains p1, B, C; B contains G
WorldTree ==
    [kids |-> [NoKids EXCEPT !["A"] = <<"p1", "B", "C">>, !["B"] = <<"G">>],
     kind |-> PageKinds,
     title |-> PlainTitles,
     partial |-> {},
     search |-> <<"A">>]

\* a two-level tree: A contains a toggle t1 (holding child page B) and C;
\* B has no title, C and G come without properties, the search returns A, B, G
WorldFlat ==
    [kids |-> [NoKids EXCEPT !["A"] = <<"t1", "C">>, !["t1"] = <<"B">>],
     kind |-> [PageKinds EXCEPT !["t1"] = "toggle"],
     title |-> [PlainTitles EXCEPT !["B"] = ""],
     partial |-> {"C", "G"},
     search |-> <<"A", "B", "G">>]

\* page G is referenced from two parents, B and C
WorldShared ==
    [kids |-> [NoKids EXCEPT !["A"] = <<"B", "C">>, !["B"] = <<"G">>, !["C"] = <<"G">>],
     kind |-> PageKinds,
     title |-> PlainTitles,
     partial |-> {},
     search |-> <<"A">>]

\* a page A with two image blocks and a leaf page B with one image block
WorldMedia ==
    [kids |-> [NoKids EXCEPT !["A"] = <<"i1", "i2", "B">>, !["B"] = <<"i3">>],
     kind |-> PageKinds,
     title |-> PlainTitles,
     partial |-> {},
     search |-> <<"A">>]

\* a single page A without child pages
WorldLeaf ==
    [kids |-> [NoKids EXCEPT !["A"] = <<"p1">>],
     kind |-> PageKinds,
     title |-> PlainTitles,
     partial |-> {},
     search |-> <<"A">>]

\* a page titled A with two child pages that are both titled A, too
WorldTwins ==
    [kids |-> [NoKids EXCEPT !["A"] = <<"B", "C">>],
     kind |-> PageKinds,
     title |-> [PlainTitles EXCEPT !["B"] = "A", !["C"] = "A"],
     partial |-> {},
     search |-> <<"A">>]

\* a page A with the leaf pages B and C, each with one image block
WorldSiblings ==
    [kids |-> [NoKids EXCEPT !["A"] = <<"B", "C">>, !["B"] = <<"i1">>, !["C"] = <<"i4">>],
     kind |-> PageKinds,
     title |-> PlainTitles,
     partial |-> {},
     search |-> <<"A">>]

Worlds ==
    <<WorldTree, WorldFlat, WorldShared, WorldMedia, WorldLeaf, WorldTwins,
      WorldSiblings>>

\* the workspaces the traversal is explored on by itself
TraversalWorlds == 1..3

\* the workspaces that are exported
ExportWorlds == 4..7

VARIABLES
    world,          \* index of the remote workspace of this run
    rootPageId,     \* traverse's rootPageId argument (NoRoot: undefined)
    concurrency,    \* options.concurrency
    faults,         \* the errors the remote side raises in this run
    pc,             \* where traverse is suspended
    queue,          \* const queue: QueueItem[]
    visited,        \* const visited = new Set<string>()
    current,        \* the queue entry being loaded
    build,          \* buildPageNode / fetchBlocksRecursively in progress
    call,           \* the withRetries invocation in progress
    lastCall,       \* the withRetries invocation that settled last
    discovery,      \* fetchRootPages in progress: roots so far and cursor
    pending,        \* const pending: Promise<void>[] with the node of each
    traverseResult, \* state of the promise traverse returned
    shifted,        \* history: every entry taken by queue.shift(), in order
    loaded,         \* history: ids whose buildPageNode was started, in order
    listed,         \* history: successful list calls <<page, block, offset>>
    loadFailed      \* history: pages whose buildPageNode threw

VARIABLES
    planned,        \* the page given to PagePathPlanner.resolve and its result
    config,         \* ExportConfig (dryRun, force, downloadConcurrency), disk at start
    jobs,           \* the handler invocations of runExport, by index in pending
    stats,          \* const stats = { total, success, skipped, failed }
    disk,           \* the file system: directories and files
    downloads       \* the tasks given to the limit of the asset downloader

vars == <<world, rootPageId, concurrency, faults, pc, queue, visited,
          current, build, call, lastCall, discovery, pending, traverseResult, shifted,
          loaded, listed, loadFailed, planned, config, jobs, stats, disk,
          downloads>>

\* what every step of the traversal leaves alone
exportVars == <<config, jobs, stats, disk, downloads>>

outputVars == <<planned, exportVars>>

W == Worlds[world]

\* resolve was not called
NoPlan == [page |-> <<>>, location |-> <<>>, parent |-> <<>>]

ZeroStats == [total |-> 0, success |-> 0, skipped |-> 0, failed |-> 0]

EmptyDisk == [dirs |-> {}, files |-> <<>>]

\* runExport is not running
ExportIdle ==
    /\ config = [dryRun |-> FALSE, force |-> FALSE, downloadConcurrency |-> 1,
                 diskAtStart |-> EmptyDisk]
    /\ jobs = <<>>
    /\ stats = ZeroStats
    /\ disk = EmptyDisk
    /\ downloads = <<>>

(***************************************************************************)
(* Remote API responses                                                    *)
(***************************************************************************)
NoCursor == -1

ApiBlock(h) ==
    [object |-> "block", id |-> Dashed(h), type |-> W.kind[h],
     has_children |-> W.kids[h] # <<>>]

\* one response of a cursor-paginated listing of the sequence all
Paginate(all, cursor) ==
    LET from == IF cursor = NoCursor THEN 0 ELSE cursor
        to == Min(from + ApiPageSize, Len(all))
    IN [results |-> SubSeq(all, from + 1, to),
        has_more |-> to < Len(all),
        next_cursor |-> IF to < Len(all) THEN to ELSE NoCursor]

\* notion.blocks.children.list({block_id, start_cursor})
ListResponse(blockId, cursor) ==
    LET all == [i \in 1..Len(W.kids[blockId.hex]) |-> ApiBlock(W.kids[blockId.hex][i])]
    IN Paginate(all, cursor)

\* notion.pages.retrieve({page_id}): a page object, with or without properties
RetrieveResponse(pageId) ==
    [object |-> "page", id |-> Dashed(pageId.hex),
     hasProperties |-> pageId.hex \notin W.partial,
     titleText |-> W.title[pageId.hex]]

\* notion.search({start_cursor, filter: page})
SearchResponse(cursor) ==
    LET all == [i \in 1..Len(W.search) |-> RetrieveResponse(Dashed(W.search[i]))]
    IN Paginate(all, cursor)

(***************************************************************************)
(* Errors an API call can raise.  notion: isNotionClientError(error);      *)
(* status 0: no status field; code "": no code field; fetchFailed: a       *)
(* TypeError whose message includes "fetch failed"; errors: the inner      *)
(* errors of an AggregateError.                                            *)
(***************************************************************************)
Err(name, notion, code, status, fetchFailed, causeCode, errors) ==
    [name |-> name, notion |-> notion, code |-> code, status |-> status,
     fetchFailed |-> fetchFailed, causeCode |-> causeCode, errors |-> errors]

ErrRateLimited == Err("rate_limited", TRUE, "rate_limited", 429, FALSE, "", <<>>)
ErrUnavailable == Err("service_unavailable", TRUE, "service_unavailable", 503, FALSE, "", <<>>)
ErrUnauthorized == Err("unauthorized", TRUE, "unauthorized", 401, FALSE, "", <<>>)
ErrNotFound == Err("object_not_found", TRUE, "object_not_found", 404, FALSE, "", <<>>)
ErrValidation == Err("validation_error", TRUE, "validation_error", 400, FALSE, "", <<>>)
ErrConnReset == Err("econnreset", FALSE, "ECONNRESET", 0, FALSE, "", <<>>)
ErrFetchFailed == Err("fetch_failed", FALSE, "", 0, TRUE, "", <<>>)
ErrCauseDns == Err("cause_enotfound", FALSE, "", 0, FALSE, "ENOTFOUND", <<>>)
ErrRefused == Err("econnrefused", FALSE, "ECONNREFUSED", 0, FALSE, "", <<>>)
ErrAggregate == Err("aggregate", FALSE, "", 0, FALSE, "", <<ErrRefused>>)
ErrPlain == Err("error", FALSE, "", 0, FALSE, "", <<>>)
NoError == Err("", FALSE, "", 0, FALSE, "", <<>>)

ApiErrors ==
    {ErrRateLimited, ErrUnavailable, ErrUnauthorized, ErrNotFound, ErrValidation,
     ErrConnReset, ErrFetchFailed, ErrCauseDns, ErrAggregate, ErrPlain}

\* the errors raised while a workspace is traversed: one that is retried
\* and one that is not
TraversalErrors == {ErrUnavailable, ErrNotFound}

isNotionClientError(error) == error.notion

isRetryableNotionError(error) ==
    IF error.code = "rate_limited" THEN TRUE
    ELSE IF error.status # 0 /\ error.status >= 500 THEN TRUE
    ELSE FALSE

RECURSIVE isNetworkError(_)
isNetworkError(error) ==
    IF error.fetchFailed THEN TRUE
    ELSE IF \E i \in 1..Len(error.errors) : isNetworkError(error.errors[i]) THEN TRUE
    ELSE IF error.code \in NETWORK_ERROR_CODES THEN TRUE
    ELSE IF error.causeCode \in NETWORK_ERROR_CODES THEN TRUE
    ELSE FALSE

(***************************************************************************)
(* withRetries: what the catch block does with the error of attempt        *)
(* number attempt: "throw" it, or "sleep" and call again.                  *)
(***************************************************************************)
\* gives up one attempt late
GivesUpLate(attempt) == attempt > MAX_RETRIES

GivesUp(attempt) == attempt >= MAX_RETRIES

\* treats every error as transient
RetryableAlways(error) == TRUE

Retryable(error) ==
    IF isNotionClientError(error) THEN isRetryableNotionError(error)
    ELSE isNetworkError(error)

CatchDecision(attempt, error) ==
    IF GivesUp(attempt) THEN "throw"
    ELSE IF ~Retryable(error) THEN "throw"
    ELSE "sleep"

BackoffDelay(attempt) == INITIAL_DELAY_MS * Pow2(attempt - 1)

\* a fresh withRetries(operation) invocation: attempt = 1, operation() called
NewCall(op) ==
    [op |-> op, attempt |-> 1, status |-> "calling", sleeps |-> <<>>, error |-> NoError]

NoCall == [op |-> "", attempt |-> 0, status |-> "idle", sleeps |-> <<>>, error |-> NoError]

Settled(c, outcome, error) ==
    [op |-> c.op, attempts |-> c.attempt, sleeps |-> c.sleeps,
     outcome |-> outcome, error |-> error]

NoSettled == [op |-> "", attempts |-> 0, sleeps |-> <<>>, outcome |-> "", error |-> NoError]

(***************************************************************************)
(* Pure helpers of the traversal service                                   *)
(***************************************************************************)
isFullPage(page) == page.hasProperties

\* the joined plain_text of the title property, or "" for undefined
extractTitle(page) == IF page.hasProperties THEN page.titleText ELSE ""

TitleOf(page) == IF extractTitle(page) = "" THEN "untitled" ELSE extractTitle(page)

\* const richBlock = { id, type, ...block }
RichBlock(block) == block

WithChildren(block, children) ==
    [object |-> block.object, id |-> block.id, type |-> block.type,
     has_children |-> block.has_children, children |-> children]

HasChildrenField(block) == "children" \in DOMAIN block

RECURSIVE extractChildPages(_)
extractChildPages(blocks) ==
    IF blocks = <<>> THEN <<>>
    ELSE LET block == Head(blocks)
             own == IF block.object = "block" /\ block.type = "child_page"
                    THEN <<[id |-> normalizeId(block.id), path |-> <<>>]>>
                    ELSE <<>>
             nested == IF HasChildrenField(block)
                       THEN extractChildPages(block.children)
                       ELSE <<>>
         IN own \o nested \o extractChildPages(Tail(blocks))

(***************************************************************************)
(* fetchBlocksRecursively as a stack of activations.  A frame is one       *)
(* activation: the block whose children it lists, its cursor, the results  *)
(* of the last response not yet looped over, and the blocks pushed so far. *)
(***************************************************************************)
NewFrame(blockId) ==
    [blockId |-> blockId, cursor |-> NoCursor, results |-> <<>>, blocks |-> <<>>]

ReplaceTop(stack, frame) == [stack EXCEPT ![Len(stack)] = frame]

\* never fetches the children of a block
DescendsNever(block) == FALSE

\* a block reporting has_children makes the activation call itself
Descends(block) == block.has_children

\* Runs the synchronous code that follows a list response (or the return of
\* a nested activation) up to the next list call or to the outermost return.
RECURSIVE Advance(_)
Advance(stack) ==
    LET top == stack[Len(stack)]
    IN IF top.results # <<>>
       THEN LET block == Head(top.results)
            IN IF Descends(block)
               THEN [done |-> FALSE, stack |-> Append(stack, NewFrame(block.id)), blocks |-> <<>>]
               ELSE Advance(ReplaceTop(stack,
                        [top EXCEPT !.blocks = Append(@, RichBlock(block)),
                                    !.results = Tail(@)]))
       ELSE IF top.cursor # NoCursor
       THEN [done |-> FALSE, stack |-> stack, blocks |-> <<>>]
       ELSE IF Len(stack) = 1
       THEN [done |-> TRUE, stack |-> <<>>, blocks |-> top.blocks]
       ELSE LET parent == stack[Len(stack) - 1]
                block == Head(parent.results)
                rest == SubSeq(stack, 1, Len(stack) - 1)
            IN Advance(ReplaceTop(rest,
                   [parent EXCEPT !.blocks = Append(@, WithChildren(block, top.blocks)),
                                  !.results = Tail(@)]))

\* takes the first response for the whole listing
ReceiveFirstPage(stack, response) ==
    ReplaceTop(stack,
        [stack[Len(stack)] EXCEPT !.results = response.results, !.cursor = NoCursor])

\* the frame on top of the stack receives a list response
Receive(stack, response) ==
    ReplaceTop(stack,
        [stack[Len(stack)] EXCEPT
            !.results = response.results,
            !.cursor = IF response.has_more THEN response.next_cursor ELSE NoCursor])

NoBuild == [title |-> "", page |-> NoRoot, stack |-> <<>>]

NoItem == [id |-> NoRoot, path |-> <<>>]

NoDiscovery == [roots |-> <<>>, cursor |-> NoCursor]

(***************************************************************************)
(* The handler pool: limit = pLimit(Math.max(1, concurrency)).  A promise  *)
(* of pending is "waiting" for a slot, "running", "fulfilled" or           *)
(* "rejected".                                                             *)
(***************************************************************************)
\* passes the configured concurrency to the pool as it is
PoolWidthRaw(c) == c

PoolWidth(c) == Max(1, c)

Running(pend) == Cardinality({i \in 1..Len(pend) : pend[i].state = "running"})

Waiting(pend) == {i \in 1..Len(pend) : pend[i].state = "waiting"}

\* starts every handler at once, without the pool
DispatchUnlimited(pend, node) == Append(pend, [node |-> node, state |-> "running"])

\* pending.push(limit(async () => { await handler(node); }))
Dispatch(pend, node) ==
    Append(pend, [node |-> node,
                  state |-> IF Running(pend) < PoolWidth(concurrency)
                            THEN "running" ELSE "waiting"])

\* p-limit starts the longest waiting task when a slot is free
PoolNext(pend) ==
    IF Waiting(pend) # {} /\ Running(pend) < PoolWidth(concurrency)
    THEN LET i == CHOOSE j \in Waiting(pend) : \A k \in Waiting(pend) : j <= k
         IN [pend EXCEPT ![i].state = "running"]
    ELSE pend

(***************************************************************************)
(* The dequeue loop of traverse                                            *)
(***************************************************************************)
\* awaits the handlers dispatched so far before it goes on
LoopAwaitsHandlers(pend) ==
    \E i \in 1..Len(pend) : pend[i].state \in {"waiting", "running"}

\* the promise limit(...) returns is pushed to pending, not awaited, so the
\* loop is never held back by the promises in pend
LoopAwaits(pend) == FALSE

\* never recognises a visited id
AlreadyVisitedNever(vis, id) == FALSE

AlreadyVisited(vis, id) == id \in vis

\* forgets the page that is dequeued
MarkVisitedNever(vis, id) == vis

MarkVisited(vis, id) == vis \cup {id}

\* number of entries at the front of q that the loop shifts and skips
RECURSIVE SkipCount(_, _)
SkipCount(q, vis) ==
    IF q = <<>> THEN 0
    ELSE IF AlreadyVisited(vis, Head(q).id) THEN 1 + SkipCount(Tail(q), vis)
    ELSE 0

\* queue.push({ id: child.id, path: [...current.path, node.title] }) per child
RECURSIVE EnqueueChildren(_, _, _)
EnqueueChildren(q, childPages, childPath) ==
    IF childPages = <<>> THEN q
    ELSE EnqueueChildren(Append(q, [id |-> Head(childPages).id, path |-> childPath]),
                         Tail(childPages), childPath)

\* Runs the loop from its head with queue q up to the next await: shifts
\* and skips visited entries, then either starts buildPageNode for the
\* first unvisited entry or leaves the loop for Promise.all(pending).
LoopStep(q, vis) ==
    LET k == SkipCount(q, vis)
    IN IF k = Len(q)
       THEN /\ pc' = "awaitAll"
            /\ queue' = <<>>
            /\ visited' = vis
            /\ current' = NoItem
            /\ build' = NoBuild
            /\ call' = NoCall
            /\ shifted' = shifted \o q
            /\ loaded' = loaded
       ELSE LET item == q[k + 1]
            IN /\ pc' = "retrieve"
               /\ queue' = SubSeq(q, k + 2, Len(q))
               /\ visited' = MarkVisited(vis, item.id)
               /\ current' = item
               /\ build' = NoBuild
               /\ call' = NewCall("retrieve")
               /\ shifted' = shifted \o SubSeq(q, 1, k + 1)
               /\ loaded' = Append(loaded, item.id)

\* the root id as the API prints it, as a page URL holds it, and none
RootPageIds == {Dashed("A"), Plain("A"), NoRoot}

Init ==
    /\ world \in TraversalWorlds
    /\ rootPageId \in RootPageIds
    /\ concurrency \in 0..MaxConcurrency
    /\ faults = TraversalErrors
    /\ pc = "start"
    /\ queue = <<>>
    /\ visited = {}
    /\ current = NoItem
    /\ build = NoBuild
    /\ call = NoCall
    /\ lastCall = NoSettled
    /\ discovery = NoDiscovery
    /\ pending = <<>>
    /\ traverseResult = "pending"
    /\ shifted = <<>>
    /\ loaded = <<>>
    /\ listed = {}
    /\ loadFailed = {}
    /\ planned = NoPlan
    /\ ExportIdle

\* traverse(rootPageId, handler) with a root: the queue starts with it
StartWithRoot ==
    /\ pc = "start"
    /\ rootPageId # NoRoot
    /\ LoopStep(<<[id |-> normalizeId(rootPageId), path |-> <<>>]>>, visited)
    /\ UNCHANGED <<outputVars, world, rootPageId, concurrency, faults, lastCall,
                   discovery, pending, traverseResult, listed, loadFailed>>

\* traverse(undefined, handler): fetchRootPages issues its first search
StartDiscovery ==
    /\ pc = "start"
    /\ rootPageId = NoRoot
    /\ pc' = "search"
    /\ call' = NewCall("search")
    /\ discovery' = NoDiscovery
    /\ UNCHANGED <<outputVars, world, rootPageId, concurrency, faults, queue, visited,
                   current, build, lastCall, pending, traverseResult, shifted,
                   loaded, listed, loadFailed>>

(***************************************************************************)
(* withRetries around the call in progress                                 *)
(***************************************************************************)
\* operation() rejects with a retryable error before the last attempt
AttemptSleeps ==
    /\ call.status = "calling"
    /\ ~LoopAwaits(pending)
    /\ \E error \in faults :
          /\ CatchDecision(call.attempt, error) = "sleep"
          /\ call' = [call EXCEPT !.status = "sleeping",
                                  !.error = error,
                                  !.sleeps = Append(@, BackoffDelay(call.attempt))]
    /\ UNCHANGED <<outputVars, world, rootPageId, concurrency, faults, pc, queue,
                   visited, current, build, lastCall, discovery, pending,
                   traverseResult, shifted, loaded, listed, loadFailed>>

\* sleep(delay) is over: withRetries(operation, attempt + 1)
Wake ==
    /\ call.status = "sleeping"
    /\ call' = [call EXCEPT !.status = "calling", !.error = NoError, !.attempt = @ + 1]
    /\ UNCHANGED <<outputVars, world, rootPageId, concurrency, faults, pc, queue,
                   visited, current, build, lastCall, discovery, pending,
                   traverseResult, shifted, loaded, listed, loadFailed>>

\* withRetries throws inside fetchRootPages: nothing catches, traverse rejects
SearchThrows ==
    /\ pc = "search"
    /\ call.status = "calling"
    /\ \E error \in faults :
          /\ CatchDecision(call.attempt, error) = "throw"
          /\ lastCall' = Settled(call, "thrown", error)
    /\ call' = NoCall
    /\ pc' = "done"
    /\ traverseResult' = "rejected"
    /\ UNCHANGED <<outputVars, world, rootPageId, concurrency, faults, queue, visited,
                   current, build, discovery, pending, shifted, loaded, listed,
                   loadFailed>>

\* withRetries throws inside buildPageNode: the catch of the loop logs
\* "Failed to load page" and the loop goes on
LoadThrows ==
    /\ pc \in {"retrieve", "list"}
    /\ call.status = "calling"
    /\ ~LoopAwaits(pending)
    /\ \E error \in faults :
          /\ CatchDecision(call.attempt, error) = "throw"
          /\ lastCall' = Settled(call, "thrown", error)
    /\ loadFailed' = loadFailed \cup
          {[id |-> current.id, stage |-> pc, attempts |-> call.attempt]}
    /\ LoopStep(queue, visited)
    /\ UNCHANGED <<outputVars, world, rootPageId, concurrency, faults, discovery,
                   pending, traverseResult, listed>>

(***************************************************************************)
(* fetchRootPages                                                          *)
(***************************************************************************)
\* the for loop over response.results: full pages become root queue items
RECURSIVE RootItems(_)
RootItems(results) ==
    IF results = <<>> THEN <<>>
    ELSE LET result == Head(results)
         IN (IF result.object = "page" /\ isFullPage(result)
             THEN <<[id |-> normalizeId(result.id), path |-> <<>>]>>
             ELSE <<>>) \o RootItems(Tail(results))

NextCursor(response) == IF response.has_more THEN response.next_cursor ELSE NoCursor

\* a search response with has_more: the do-while issues the next search
SearchMore ==
    /\ pc = "search"
    /\ call.status = "calling"
    /\ LET response == SearchResponse(discovery.cursor)
       IN /\ NextCursor(response) # NoCursor
          /\ discovery' = [roots |-> discovery.roots \o RootItems(response.results),
                           cursor |-> NextCursor(response)]
    /\ lastCall' = Settled(call, "returned", NoError)
    /\ call' = NewCall("search")
    /\ UNCHANGED <<outputVars, world, rootPageId, concurrency, faults, pc, queue,
                   visited, current, build, pending, traverseResult, shifted,
                   loaded, listed, loadFailed>>

\* the last search response: queue.push(...roots) and the loop starts
SearchDone ==
    /\ pc = "search"
    /\ call.status = "calling"
    /\ LET response == SearchResponse(discovery.cursor)
       IN /\ NextCursor(response) = NoCursor
          /\ discovery' = [roots |-> discovery.roots \o RootItems(response.results),
                           cursor |-> NoCursor]
          /\ LoopStep(queue \o discovery.roots \o RootItems(response.results), visited)
    /\ lastCall' = Settled(call, "returned", NoError)
    /\ UNCHANGED <<outputVars, world, rootPageId, concurrency, faults, pending,
                   traverseResult, listed, loadFailed>>

(***************************************************************************)
(* buildPageNode                                                           *)
(***************************************************************************)
TopFrame == build.stack[Len(build.stack)]

\* the id the call in progress is made with: page_id of pages.retrieve,
\* block_id of blocks.children.list
CallArgument ==
    IF pc = "retrieve" THEN formatId(current.id) ELSE formatId(TopFrame.blockId)

\* pages.retrieve returns a full page: fetchBlocksRecursively(pageId) starts
RetrieveFull ==
    /\ pc = "retrieve"
    /\ call.status = "calling"
    /\ ~LoopAwaits(pending)
    /\ LET page == RetrieveResponse(CallArgument)
       IN /\ isFullPage(page)
          /\ build' = [title |-> TitleOf(page), page |-> page.id,
                       stack |-> <<NewFrame(current.id)>>]
    /\ lastCall' = Settled(call, "returned", NoError)
    /\ call' = NewCall("list")
    /\ pc' = "list"
    /\ UNCHANGED <<outputVars, world, rootPageId, concurrency, faults, queue, visited,
                   current, discovery, pending, traverseResult, shifted, loaded,
                   listed, loadFailed>>

\* pages.retrieve returns a page without properties: buildPageNode throws
\* "Unable to retrieve properties" and the catch of the loop logs it
RetrievePartial ==
    /\ pc = "retrieve"
    /\ call.status = "calling"
    /\ ~LoopAwaits(pending)
    /\ ~isFullPage(RetrieveResponse(CallArgument))
    /\ lastCall' = Settled(call, "returned", NoError)
    /\ loadFailed' = loadFailed \cup
          {[id |-> current.id, stage |-> "properties", attempts |-> call.attempt]}
    /\ LoopStep(queue, visited)
    /\ UNCHANGED <<outputVars, world, rootPageId, concurrency, faults, discovery,
                   pending, traverseResult, listed>>

\* the state of fetchBlocksRecursively after the list call in progress returns
AfterList ==
    Advance(Receive(build.stack, ListResponse(CallArgument, TopFrame.cursor)))

ListedNow ==
    <<current.id.hex, TopFrame.blockId.hex,
      IF TopFrame.cursor = NoCursor THEN 0 ELSE TopFrame.cursor>>

\* a list call returns and fetchBlocksRecursively needs another list call
ListMore ==
    /\ pc = "list"
    /\ call.status = "calling"
    /\ ~LoopAwaits(pending)
    /\ ~AfterList.done
    /\ build' = [build EXCEPT !.stack = AfterList.stack]
    /\ listed' = listed \cup {ListedNow}
    /\ lastCall' = Settled(call, "returned", NoError)
    /\ call' = NewCall("list")
    /\ UNCHANGED <<outputVars, world, rootPageId, concurrency, faults, pc, queue,
                   visited, current, discovery, pending, traverseResult, shifted,
                   loaded, loadFailed>>

\* the PageNode buildPageNode returns for the blocks fetched
PageNodeOf(blocks) ==
    [id |-> normalizeId(build.page), title |-> build.title, path |-> current.path,
     type |-> "page", hasChildPages |-> extractChildPages(blocks) # <<>>,
     blocks |-> blocks]

\* the last list call returns: buildPageNode returns, the children are
\* queued, the handler is dispatched and the loop goes on
ListDone ==
    /\ pc = "list"
    /\ call.status = "calling"
    /\ ~LoopAwaits(pending)
    /\ AfterList.done
    /\ LET node == PageNodeOf(AfterList.blocks)
           childPages == extractChildPages(AfterList.blocks)
       IN /\ pending' = Dispatch(pending, node)
          /\ LoopStep(EnqueueChildren(queue, childPages, Append(current.path, node.title)),
                      visited)
    /\ listed' = listed \cup {ListedNow}
    /\ lastCall' = Settled(call, "returned", NoError)
    /\ UNCHANGED <<outputVars, world, rootPageId, concurrency, faults, discovery,
                   traverseResult, loadFailed>>

(***************************************************************************)
(* Handlers and the end of traverse                                        *)
(***************************************************************************)
\* await handler(node) returns
HandlerFulfils(i) ==
    /\ pending[i].state = "running"
    /\ pending' = PoolNext([pending EXCEPT ![i].state = "fulfilled"])
    /\ UNCHANGED <<outputVars, world, rootPageId, concurrency, faults, pc, queue,
                   visited, current, build, call, lastCall, discovery,
                   traverseResult, shifted, loaded, listed, loadFailed>>

\* await handler(node) throws: the promise limit returned rejects
HandlerRejects(i) ==
    /\ pending[i].state = "running"
    /\ pending' = PoolNext([pending EXCEPT ![i].state = "rejected"])
    /\ UNCHANGED <<outputVars, world, rootPageId, concurrency, faults, pc, queue,
                   visited, current, build, call, lastCall, discovery,
                   traverseResult, shifted, loaded, listed, loadFailed>>

AllFulfilled(pend) == \A i \in 1..Len(pend) : pend[i].state = "fulfilled"

SomeRejected(pend) == \E i \in 1..Len(pend) : pend[i].state = "rejected"

\* await Promise.all(pending) returns: traverse resolves
TraverseResolves ==
    /\ pc = "awaitAll"
    /\ AllFulfilled(pending)
    /\ pc' = "done"
    /\ traverseResult' = "resolved"
    /\ UNCHANGED <<outputVars, world, rootPageId, concurrency, faults, queue, visited,
                   current, build, call, lastCall, discovery, pending, shifted,
                   loaded, listed, loadFailed>>

\* await Promise.all(pending) throws the reason of a rejected promise
TraverseRejects ==
    /\ pc = "awaitAll"
    /\ SomeRejected(pending)
    /\ pc' = "done"
    /\ traverseResult' = "rejected"
    /\ UNCHANGED <<outputVars, world, rootPageId, concurrency, faults, queue, visited,
                   current, build, call, lastCall, discovery, pending, shifted,
                   loaded, listed, loadFailed>>

Next ==
    \/ StartWithRoot
    \/ StartDiscovery
    \/ AttemptSleeps
    \/ Wake
    \/ SearchThrows
    \/ LoadThrows
    \/ SearchMore
    \/ SearchDone
    \/ RetrieveFull
    \/ RetrievePartial
    \/ ListMore
    \/ ListDone
    \/ \E i \in 1..Len(pending) : HandlerFulfils(i)
    \/ \E i \in 1..Len(pending) : HandlerRejects(i)
    \/ TraverseResolves
    \/ TraverseRejects

Spec == Init /\ [][Next]_vars

\* every API call, every sleep and every handler eventually returns
FairSpec == Spec /\ WF_vars(Next)

TypeOK ==
    /\ pc \in {"start", "search", "retrieve", "list", "awaitAll", "done", "withRetries"}
    /\ traverseResult \in {"pending", "resolved", "rejected"}
    /\ call.status \in {"idle", "calling", "sleeping"}
    /\ \A i \in 1..Len(pending) :
          pending[i].state \in {"waiting", "running", "fulfilled", "rejected"}

(***************************************************************************)
(* withRetries on its own: one wrapped operation after the other, failing  *)
(* with any of the errors of ApiErrors.                                    *)
(***************************************************************************)
RetryInit ==
    /\ world = 1
    /\ rootPageId = NoRoot
    /\ concurrency = 1
    /\ faults = ApiErrors
    /\ pc = "withRetries"
    /\ queue = <<>>
    /\ visited = {}
    /\ current = NoItem
    /\ build = NoBuild
    /\ call = NoCall
    /\ lastCall = NoSettled
    /\ discovery = NoDiscovery
    /\ pending = <<>>
    /\ traverseResult = "pending"
    /\ shifted = <<>>
    /\ loaded = <<>>
    /\ listed = {}
    /\ loadFailed = {}
    /\ planned = NoPlan
    /\ ExportIdle

\* withRetries(operation) is invoked
RetryBegin ==
    /\ pc = "withRetries"
    /\ call.status = "idle"
    /\ \E op \in {"search", "retrieve", "list"} : call' = NewCall(op)
    /\ UNCHANGED <<outputVars, world, rootPageId, concurrency, faults, pc, queue, visited,
                   current, build, lastCall, discovery, pending, traverseResult,
                   shifted, loaded, listed, loadFailed>>

\* await operation() returns a result
RetryReturns ==
    /\ pc = "withRetries"
    /\ call.status = "calling"
    /\ lastCall' = Settled(call, "returned", NoError)
    /\ call' = NoCall
    /\ UNCHANGED <<outputVars, world, rootPageId, concurrency, faults, pc, queue, visited,
                   current, build, discovery, pending, traverseResult, shifted,
                   loaded, listed, loadFailed>>

\* the catch block throws the error of this attempt
RetryThrows ==
    /\ pc = "withRetries"
    /\ call.status = "calling"
    /\ \E error \in faults :
          /\ CatchDecision(call.attempt, error) = "throw"
          /\ lastCall' = Settled(call, "thrown", error)
    /\ call' = NoCall
    /\ UNCHANGED <<outputVars, world, rootPageId, concurrency, faults, pc, queue, visited,
                   current, build, discovery, pending, traverseResult, shifted,
                   loaded, listed, loadFailed>>

RetryNext == RetryBegin \/ AttemptSleeps \/ Wake \/ RetryReturns \/ RetryThrows

RetrySpec == RetryInit /\ [][RetryNext]_vars

(***************************************************************************)
(* The Markdown renderer (src/markdown/renderer.ts).  Of a block the       *)
(* renderer reads its id, its type and the payload of the type; the        *)
(* payload of the blocks of the remote workspace is kept here by block id. *)
(* In a text a run of ordinary letters may stand as one element, as in     *)
(* <<".", "jpg">>.                                                         *)
(***************************************************************************)
\* a source URL that new URL() accepts: its name and its pathname
UrlAt(name, pathname) == [name |-> name, pathname |-> pathname, valid |-> TRUE]

\* the URL of the file name with the extension ext in the root of its host
Url(name, ext) == UrlAt(name, <<"/", name>> \o ext)

\* a source new URL() throws on
UrlInvalid == [name |-> "bad", pathname |-> <<>>, valid |-> FALSE]

\* file.url and external.url are no strings: the source is undefined
NoSource == [name |-> "", pathname |-> <<>>, valid |-> FALSE]

\* image.file.url of the image blocks: i1 and i2 show the same picture
MediaSource ==
    [h \in MediaHexes |->
        IF h = "i3" THEN Url("u2", <<>>)
        ELSE IF h = "i4" THEN Url("u3", <<".", "jpg">>)
        ELSE Url("u1", <<".", "jpg">>)]

\* image.caption of the image blocks, as richTextArrayToMarkdown joins it
MediaCaption ==
    [h \in MediaHexes |-> IF h = "i3" THEN <<"F", "i", "g", " ", "1">> ELSE <<>>]

\* value.slice(0, 64) of sanitizeFileName
FILE_NAME_LIMIT == 64

Lower ==
    [c \in {"F", "A", "B", "D"} |->
        CASE c = "F" -> "f" [] c = "A" -> "a" [] c = "B" -> "b" [] c = "D" -> "d"]

\* String.prototype.toLowerCase on one element of a text
LowerCase(c) == IF c \in DOMAIN Lower THEN Lower[c] ELSE c

\* replaces the blanks only and keeps the illegal characters
sanitizeFileNameLax(value) ==
    LET dashed == ReplaceRuns(Trim(value), Whitespace, <<"-">>)
        lower == [i \in 1..Len(dashed) |-> LowerCase(dashed[i])]
        cut == SubSeq(lower, 1, Min(FILE_NAME_LIMIT, Len(lower)))
    IN IF cut = <<>> THEN <<"asset">> ELSE cut

sanitizeFileName(value) ==
    LET trimmed == Trim(value)
        dashed == ReplaceRuns(trimmed, IllegalChars \cup Whitespace, <<"-">>)
        single == ReplaceRuns(dashed, {"-"}, <<"-">>)
        noHead == IF single # <<>> /\ Head(single) = "-" THEN Tail(single) ELSE single
        noEdge == IF noHead # <<>> /\ noHead[Len(noHead)] = "-"
                  THEN SubSeq(noHead, 1, Len(noHead) - 1)
                  ELSE noHead
        lower == [i \in 1..Len(noEdge) |-> LowerCase(noEdge[i])]
        cut == SubSeq(lower, 1, Min(FILE_NAME_LIMIT, Len(lower)))
    IN IF cut = <<>> THEN <<"asset">> ELSE cut

RECURSIVE LastSegment(_)
\* pathname.split("/").pop()
LastSegment(pathname) ==
    IF \A i \in 1..Len(pathname) : pathname[i] # "/" THEN pathname
    ELSE LastSegment(Tail(pathname))

\* the extension of the last path segment of the URL, <<>> for undefined
extractExtension(url) ==
    IF ~url.valid THEN <<>>
    ELSE LET lastSegment == LastSegment(url.pathname)
             dots == {i \in 1..Len(lastSegment) : lastSegment[i] = "."}
             dotIndex == IF dots = {} THEN 0
                         ELSE CHOOSE i \in dots : \A j \in dots : j <= i
         IN IF dotIndex > 1 /\ dotIndex < Len(lastSegment)
            THEN SubSeq(lastSegment, dotIndex, Len(lastSegment))
            ELSE <<>>

guessExtension(url, type) ==
    IF extractExtension(url) # <<>> THEN extractExtension(url)
    ELSE CASE type = "image" -> <<".", "png">>
           [] type = "audio" -> <<".", "mp3">>
           [] type = "video" -> <<".", "mp4">>
           [] type = "pdf" -> <<".", "pdf">>
           [] OTHER -> <<".", "bin">>

splitExtension(fileName) ==
    LET dots == {i \in 1..Len(fileName) : fileName[i] = "."}
        dotIndex == IF dots = {} THEN 0 ELSE CHOOSE i \in dots : \A j \in dots : j <= i
    IN IF dotIndex <= 1
       THEN [name |-> fileName, ext |-> <<>>]
       ELSE [name |-> SubSeq(fileName, 1, dotIndex - 1),
             ext |-> SubSeq(fileName, dotIndex, Len(fileName))]

\* gives every asset its candidate name, used or not
reusedFileName(candidate, used) == candidate

\* numbers the names from 1
uniqueFileNameFromOne(candidate, used) ==
    IF candidate \notin used THEN candidate
    ELSE LET parts == splitExtension(candidate)
             numbered(n) == parts.name \o <<"-", ToString(n)>> \o parts.ext
             free == {n \in 1..(Cardinality(used) + 2) : numbered(n) \notin used}
         IN numbered(CHOOSE n \in free : \A m \in free : n <= m)

\* the name uniqueFileName returns; the caller adds it to used
uniqueFileName(candidate, used) ==
    IF candidate \notin used THEN candidate
    ELSE LET parts == splitExtension(candidate)
             numbered(n) == parts.name \o <<"-", ToString(n)>> \o parts.ext
             free == {n \in 2..(Cardinality(used) + 2) : numbered(n) \notin used}
         IN numbered(CHOOSE n \in free : \A m \in free : n <= m)

\* the characters of an id, kept as one element
IdText(id) == <<id.hex>>

NewContext == [assets |-> <<>>, usedAssetNames |-> {}, links |-> <<>>]

RECURSIVE SplitSlash(_, _)
\* the components of a POSIX path: the runs of text between the "/"
SplitSlash(text, component) ==
    IF text = <<>> THEN (IF component = <<>> THEN <<>> ELSE <<component>>)
    ELSE IF Head(text) = "/"
         THEN (IF component = <<>> THEN <<>> ELSE <<component>>) \o
              SplitSlash(Tail(text), <<>>)
         ELSE SplitSlash(Tail(text), Append(component, Head(text)))

\* path.posix.join("img", fileName)
PosixJoinImg(fileName) == PathJoin(<<<<"img">>>> \o SplitSlash(fileName, <<>>))

\* formatAssetPath: "./" is put before a path that does not start with it
formatAssetPath(localPath) ==
    IF localPath # <<>> /\ localPath[1] = <<".">> THEN localPath
    ELSE <<<<".">>>> \o localPath

\* createAsset and the target of the Markdown link its caller returns
createAsset(context, options) ==
    LET extension == guessExtension(options.url, options.type)
        baseName == sanitizeFileName(IF options.hasCaption
                                     THEN options.caption
                                     ELSE IdText(options.id))
        fileName == uniqueFileName(baseName \o extension, context.usedAssetNames)
        localPath == PosixJoinImg(fileName)
        asset == [id |-> options.id, originalUrl |-> options.url,
                  localPath |-> localPath, type |-> options.type,
                  caption |-> options.caption]
    IN [assets |-> Append(context.assets, asset),
        usedAssetNames |-> context.usedAssetNames \cup {fileName},
        links |-> Append(context.links, formatAssetPath(localPath))]

\* block[type]: the source, whether there is a caption array, and the
\* caption as richTextArrayToMarkdown joins it
PayloadOf(block) ==
    IF "payload" \in DOMAIN block THEN block.payload
    ELSE [source |-> MediaSource[block.id.hex], hasCaption |-> TRUE,
          caption |-> MediaCaption[block.id.hex]]

\* renderImage: the caption is a string, "" without caption segments, so
\* options.caption ?? options.id is the caption
renderImage(block, context) ==
    IF PayloadOf(block).source = NoSource THEN context
    ELSE createAsset(context, [id |-> block.id, url |-> PayloadOf(block).source,
                               hasCaption |-> TRUE,
                               caption |-> PayloadOf(block).caption,
                               type |-> "image"])

mapMediaType(type) ==
    IF type \in {"audio", "video", "pdf", "file"} THEN type ELSE "external"

\* renderMedia: the caption is undefined unless data.caption is an array
renderMedia(block, context) ==
    IF PayloadOf(block).source = NoSource THEN context
    ELSE createAsset(context, [id |-> block.id, url |-> PayloadOf(block).source,
                               hasCaption |-> PayloadOf(block).hasCaption,
                               caption |-> PayloadOf(block).caption,
                               type |-> mapMediaType(block.type)])

RECURSIVE RenderBlocks(_, _)
\* the custom transformers applied to the blocks of the page, in order
RenderBlocks(blocks, context) ==
    IF blocks = <<>> THEN context
    ELSE RenderBlocks(Tail(blocks),
                      IF Head(blocks).type = "image"
                      THEN renderImage(Head(blocks), context)
                      ELSE IF Head(blocks).type \in {"file", "pdf", "audio", "video"}
                      THEN renderMedia(Head(blocks), context)
                      ELSE context)

\* renderPage: the content (the title and the asset links, in order) and
\* the asset plans
renderPage(page) ==
    LET context == RenderBlocks(page.blocks, NewContext)
    IN [content |-> [title |-> page.title, links |-> context.links],
        assets |-> context.assets]


(***************************************************************************)
(* The asset downloader (src/assets/downloader.ts).  downloads holds the   *)
(* tasks given to limit, in order, for all pages: the limit is created     *)
(* once, by createAssetDownloader.  A task is "waiting", "running" (its    *)
(* request is in flight), "ok" or "failed".                                *)
(***************************************************************************)
\* largest configured download concurrency that is explored
MaxDownloadConcurrency == 2

\* pLimit(Math.max(1, concurrency))
DownloadWidth(c) == Max(1, c)

InFlight(tasks) == {d \in 1..Len(tasks) : tasks[d].state = "running"}

Queued(tasks) == {d \in 1..Len(tasks) : tasks[d].state = "waiting"}

RECURSIVE deduplicatePlans(_, _)
\* the plans whose localPath was not seen before, in order
deduplicatePlans(plans, seen) ==
    IF plans = <<>> THEN <<>>
    ELSE IF Head(plans).localPath \in seen
         THEN deduplicatePlans(Tail(plans), seen)
         ELSE <<Head(plans)>> \o
              deduplicatePlans(Tail(plans), seen \cup {Head(plans).localPath})

\* starts every download at once, whatever the limit
SubmitUnlimited(tasks, job, plan) ==
    Append(tasks, [job |-> job, plan |-> plan, state |-> "running"])

\* limit(async () => ...) for one plan
Submit(tasks, job, plan) ==
    Append(tasks, [job |-> job, plan |-> plan,
                   state |-> IF Cardinality(InFlight(tasks)) <
                                    DownloadWidth(config.downloadConcurrency)
                             THEN "running" ELSE "waiting"])

RECURSIVE SubmitAll(_, _, _)
\* uniquePlans.map((plan) => limit(...))
SubmitAll(tasks, job, plans) ==
    IF plans = <<>> THEN tasks
    ELSE SubmitAll(Submit(tasks, job, Head(plans)), job, Tail(plans))

\* leaves the waiting tasks waiting
LimitStalls(tasks) == tasks

\* the limit starts the longest waiting task when a slot is free
LimitNext(tasks) ==
    IF Queued(tasks) # {} /\
       Cardinality(InFlight(tasks)) < DownloadWidth(config.downloadConcurrency)
    THEN LET d == CHOOSE j \in Queued(tasks) : \A k \in Queued(tasks) : j <= k
         IN [tasks EXCEPT ![d].state = "running"]
    ELSE tasks

\* the tasks of one collectAssets call, in the order of its plans
TasksOf(tasks, job) == SelectSeq(tasks, LAMBDA t : t.job = job)

\* keeps the result of every task, the failed ones too
allResults(results) == results

\* results.filter(Boolean): the tasks that returned a descriptor
successful(results) == SelectSeq(results, LAMBDA t : t.state = "ok")

\* the descriptors { ...plan, data } of the tasks; the data of a download
\* is identified by its source
Descriptors(results) ==
    [k \in 1..Len(results) |->
        [plan |-> results[k].plan, data |-> results[k].plan.originalUrl.name]]

(***************************************************************************)
(* The output writer (src/output/writer.ts).  disk.files maps the path of  *)
(* every file to its bytes and to whether it rejects writes.               *)
(***************************************************************************)
\* a title of the workspace as text
AsText(string) == <<string>>

\* the page as the planner reads it
PlannerPage(node) ==
    [node EXCEPT !.title = AsText(node.title),
                 !.path = [k \in 1..Len(node.path) |-> AsText(node.path[k])]]

Exists(path) == path \in DOMAIN disk.files

\* writeFile(path) succeeds unless the file exists and is read-only
Writable(path) == ~Exists(path) \/ ~disk.files[path].readOnly

\* the directories mkdir(directory, { recursive: true }) creates
MkdirRecursive(dirs, directory) ==
    dirs \cup {SubSeq(directory, 1, k) : k \in 1..Len(directory)}

WriteFile(files, path, data) ==
    [p \in DOMAIN files \cup {path} |->
        IF p = path THEN [data |-> data, readOnly |-> FALSE] ELSE files[p]]

\* path.dirname
Dirname(path) == SubSeq(path, 1, Len(path) - 1)

\* path.join(pageDir, asset.localPath)
Destination(job, asset) == PathJoin(Dirname(job.location.filePath) \o asset.plan.localPath)

\* ignores dryRun
DryRunIgnored(cfg) == FALSE

\* if (dryRun) return, before anything is written
DryRunReturns(cfg) == cfg.dryRun

\* overwrites an existing file whatever force says
SkipNever(cfg, found) == FALSE

\* if (!force && (await exists(path))): the write is skipped
Skips(cfg, found) == ~cfg.force /\ found


(***************************************************************************)
(* runExport (src/index.ts): the handler given to traverse.  jobs[i] is    *)
(* the invocation of the handler for pending[i]; its step is the await it  *)
(* is suspended at.  wrote, existed, seen and failedAsset are history.     *)
(***************************************************************************)
OutDir == BaseDir[1]

\* a file an earlier export left at path: a page with the old content, an
\* asset with the old bytes
FileOld(path, readOnly) ==
    [data |-> IF path[Len(path) - 1] = <<"img">> THEN "old"
              ELSE [title |-> "old", links |-> <<>>],
     readOnly |-> readOnly]

ExportDirs == {<<OutDir>>, <<OutDir, <<"A">>>>, <<OutDir, <<"A">>, <<"img">>>>}

PathOfA == <<OutDir, <<"A">>, <<"A", ".", "m", "d">>>>

PathOfB == <<OutDir, <<"A">>, <<"B", ".", "m", "d">>>>

PathOfFirstAsset == <<OutDir, <<"A">>, <<"img">>, <<"asset", ".", "jpg">>>>

\* an earlier export left page A and its first image behind
OldExport ==
    [dirs |-> ExportDirs,
     files |-> [p \in {PathOfA, PathOfFirstAsset} |-> FileOld(p, FALSE)]]

\* the first image of A and the file of page B exist and reject writes
LockedFiles ==
    [dirs |-> ExportDirs,
     files |-> [p \in {PathOfB, PathOfFirstAsset} |-> FileOld(p, TRUE)]]

InitialDisks == {EmptyDisk, OldExport, LockedFiles}

Configs ==
    [dryRun : BOOLEAN, force : BOOLEAN,
     downloadConcurrency : 0..MaxDownloadConcurrency, diskAtStart : InitialDisks]

ExportInit ==
    /\ world \in ExportWorlds
    /\ rootPageId = Dashed("A")
    /\ concurrency \in 1..MaxConcurrency
    /\ faults = {ErrNotFound}
    /\ pc = "start"
    /\ queue = <<>>
    /\ visited = {}
    /\ current = NoItem
    /\ build = NoBuild
    /\ call = NoCall
    /\ lastCall = NoSettled
    /\ discovery = NoDiscovery
    /\ pending = <<>>
    /\ traverseResult = "pending"
    /\ shifted = <<>>
    /\ loaded = <<>>
    /\ listed = {}
    /\ loadFailed = {}
    /\ planned = NoPlan
    /\ config \in Configs
    /\ jobs = <<>>
    /\ stats = ZeroStats
    /\ disk = config.diskAtStart
    /\ downloads = <<>>

traversalVars ==
    <<world, rootPageId, concurrency, faults, pc, queue, visited, current, build,
      call, lastCall, discovery, traverseResult, shifted, loaded, listed, loadFailed>>

Started == DOMAIN jobs

\* the handler starts: stats.total += 1 and await renderer.renderPage(page)
HandlerBegins(i) ==
    /\ i \in 1..Len(pending)
    /\ pending[i].state = "running"
    /\ i \notin Started
    /\ stats' = [stats EXCEPT !.total = @ + 1]
    /\ jobs' = [j \in Started \cup {i} |->
                  IF j = i
                  THEN [step |-> "rendered", markdown |-> renderPage(pending[i].node),
                        assets |-> <<>>, location |-> <<>>, next |-> 0,
                        outcome |-> "", wrote |-> {}, existed |-> FALSE,
                        seen |-> <<>>, failedAsset |-> 0]
                  ELSE jobs[j]]
    /\ UNCHANGED <<traversalVars, pending, planned, config, disk, downloads>>

\* renderPage returned; config.dryRun ? [] : await downloader.collectAssets(...)
CollectAssets(i) ==
    /\ i \in Started
    /\ jobs[i].step = "rendered"
    /\ LET plans == jobs[i].markdown.assets
       IN IF config.dryRun \/ Len(plans) = 0
          THEN /\ jobs' = [jobs EXCEPT ![i].step = "write"]
               /\ UNCHANGED downloads
          ELSE /\ downloads' = SubmitAll(downloads, i, deduplicatePlans(plans, {}))
               /\ jobs' = [jobs EXCEPT ![i].step = "downloading"]
    /\ UNCHANGED <<traversalVars, pending, planned, config, stats, disk>>

\* downloadBinary returns the bytes: the task returns its descriptor
DownloadSucceeds(d) ==
    /\ d \in InFlight(downloads)
    /\ downloads' = LimitNext([downloads EXCEPT ![d].state = "ok"])
    /\ UNCHANGED <<traversalVars, pending, planned, config, jobs, stats, disk>>

\* downloadBinary throws (status, network, timeout): the catch of the task
\* logs it and returns undefined
DownloadFails(d) ==
    /\ d \in InFlight(downloads)
    /\ downloads' = LimitNext([downloads EXCEPT ![d].state = "failed"])
    /\ UNCHANGED <<traversalVars, pending, planned, config, jobs, stats, disk>>

\* await Promise.all(downloads) returns: collectAssets returns the filtered
\* results
CollectReturns(i) ==
    /\ i \in Started
    /\ jobs[i].step = "downloading"
    /\ LET results == TasksOf(downloads, i)
       IN /\ \A k \in 1..Len(results) : results[k].state \in {"ok", "failed"}
          /\ jobs' = [jobs EXCEPT ![i].step = "write",
                                  ![i].assets = Descriptors(successful(results))]
    /\ UNCHANGED <<traversalVars, pending, planned, config, stats, disk, downloads>>

\* the handler settles after its last await: stats.success or stats.failed
\* is counted, the promise of limit fulfils and the pool starts the next one
\* counts a skipped write in stats.skipped
SettleCountsSkips(i, job, outcome) ==
    /\ jobs' = [jobs EXCEPT ![i] = [job EXCEPT !.step = "done", !.outcome = outcome]]
    /\ stats' = IF outcome = "failed"
                THEN [stats EXCEPT !.failed = @ + 1]
                ELSE IF outcome = "skipped"
                THEN [stats EXCEPT !.skipped = @ + 1]
                ELSE [stats EXCEPT !.success = @ + 1]
    /\ pending' = PoolNext([pending EXCEPT ![i].state = "fulfilled"])

Settle(i, job, outcome) ==
    /\ jobs' = [jobs EXCEPT ![i] = [job EXCEPT !.step = "done", !.outcome = outcome]]
    /\ stats' = IF outcome = "failed"
                THEN [stats EXCEPT !.failed = @ + 1]
                ELSE [stats EXCEPT !.success = @ + 1]
    /\ pending' = PoolNext([pending EXCEPT ![i].state = "fulfilled"])

\* writer.writePage: resolve, the dry-run return, mkdir(directory)
WritePage(i) ==
    /\ i \in Started
    /\ jobs[i].step = "write"
    /\ LET location == resolve(PlannerPage(pending[i].node))
           job == [jobs[i] EXCEPT
                     !.location = location,
                     !.existed = Exists(location.filePath),
                     !.seen = IF Exists(location.filePath)
                              THEN <<disk.files[location.filePath].data>> ELSE <<>>]
       IN IF DryRunReturns(config)
          THEN /\ Settle(i, job, "dry")
               /\ UNCHANGED disk
          ELSE /\ disk' = [disk EXCEPT !.dirs = MkdirRecursive(@, location.directory)]
               /\ jobs' = [jobs EXCEPT ![i] = [job EXCEPT !.step = "exists"]]
               /\ UNCHANGED <<stats, pending>>
    /\ UNCHANGED <<traversalVars, planned, config, downloads>>

\* if (!force && (await exists(filePath))): log the skip and return
CheckExists(i) ==
    /\ i \in Started
    /\ jobs[i].step = "exists"
    /\ IF Skips(config, Exists(jobs[i].location.filePath))
       THEN Settle(i, jobs[i], "skipped")
       ELSE /\ jobs' = [jobs EXCEPT ![i].step = "writeFile"]
            /\ UNCHANGED <<stats, pending>>
    /\ UNCHANGED <<traversalVars, planned, config, disk, downloads>>

\* await writeFile(filePath, markdown.content) and, with assets,
\* mkdir(assetDir) of writeAssets
WriteMarkdown(i) ==
    /\ i \in Started
    /\ jobs[i].step = "writeFile"
    /\ LET filePath == jobs[i].location.filePath
           job == [jobs[i] EXCEPT !.wrote = @ \cup {filePath}]
       IN IF ~Writable(filePath)
          THEN /\ Settle(i, jobs[i], "failed")
               /\ UNCHANGED disk
          ELSE IF Len(job.assets) = 0
          THEN /\ disk' = [disk EXCEPT
                             !.files = WriteFile(@, filePath, job.markdown.content)]
               /\ Settle(i, job, "written")
          ELSE /\ disk' = [disk EXCEPT
                             !.files = WriteFile(@, filePath, job.markdown.content),
                             !.dirs = MkdirRecursive(@, Append(Dirname(filePath), <<"img">>))]
               /\ jobs' = [jobs EXCEPT ![i] = [job EXCEPT !.step = "asset", !.next = 1]]
               /\ UNCHANGED <<stats, pending>>
    /\ UNCHANGED <<traversalVars, planned, config, downloads>>

\* the loop of writeAssets goes on with the asset after job.next
AfterAsset(i, job) ==
    IF job.next < Len(job.assets)
    THEN /\ jobs' = [jobs EXCEPT ![i] = [job EXCEPT !.step = "asset", !.next = @ + 1]]
         /\ UNCHANGED <<stats, pending>>
    ELSE Settle(i, job, "written")

\* writeAssets: mkdir(dirname(destination)) and the exists check of an asset
AssetCheck(i) ==
    /\ i \in Started
    /\ jobs[i].step = "asset"
    /\ LET destination == Destination(jobs[i], jobs[i].assets[jobs[i].next])
       IN /\ disk' = [disk EXCEPT !.dirs = MkdirRecursive(@, Dirname(destination))]
          /\ IF Skips(config, Exists(destination))
             THEN AfterAsset(i, jobs[i])
             ELSE /\ jobs' = [jobs EXCEPT ![i].step = "assetWrite"]
                  /\ UNCHANGED <<stats, pending>>
    /\ UNCHANGED <<traversalVars, planned, config, downloads>>

\* writeAssets: await writeFile(destination, asset.data); a failure leaves
\* the loop and writePage and is caught by the handler
AssetWrite(i) ==
    /\ i \in Started
    /\ jobs[i].step = "assetWrite"
    /\ LET asset == jobs[i].assets[jobs[i].next]
           destination == Destination(jobs[i], asset)
       IN IF Writable(destination)
          THEN /\ disk' = [disk EXCEPT !.files = WriteFile(@, destination, asset.data)]
               /\ AfterAsset(i, [jobs[i] EXCEPT !.wrote = @ \cup {destination}])
          ELSE /\ Settle(i, [jobs[i] EXCEPT !.failedAsset = jobs[i].next], "failed")
               /\ UNCHANGED disk
    /\ UNCHANGED <<traversalVars, planned, config, downloads>>

\* the handler invocations an export can have: one for every page
HandlerIds == 1..3

ExportNext ==
    \/ StartWithRoot
    \/ LoadThrows
    \/ RetrieveFull
    \/ ListMore
    \/ ListDone
    \/ TraverseResolves
    \/ \E i \in HandlerIds : HandlerBegins(i)
    \/ \E i \in HandlerIds : CollectAssets(i)
    \/ \E d \in 1..Len(downloads) : DownloadSucceeds(d)
    \/ \E d \in 1..Len(downloads) : DownloadFails(d)
    \/ \E i \in HandlerIds : CollectReturns(i)
    \/ \E i \in HandlerIds : WritePage(i)
    \/ \E i \in HandlerIds : CheckExists(i)
    \/ \E i \in HandlerIds : WriteMarkdown(i)
    \/ \E i \in HandlerIds : AssetCheck(i)
    \/ \E i \in HandlerIds : AssetWrite(i)

ExportSpec == ExportInit /\ [][ExportNext]_vars

\* the steps a handler makes when a download, a file system call or
\* collectAssets returns
AwaitedStep ==
    \/ \E i \in HandlerIds : CollectAssets(i)
    \/ \E d \in 1..Len(downloads) : DownloadSucceeds(d)
    \/ \E d \in 1..Len(downloads) : DownloadFails(d)
    \/ \E i \in HandlerIds : CollectReturns(i)
    \/ \E i \in HandlerIds : CheckExists(i)
    \/ \E i \in HandlerIds : WriteMarkdown(i)
    \/ \E i \in HandlerIds : AssetCheck(i)
    \/ \E i \in HandlerIds : AssetWrite(i)

\* the steps in which a handler computes: it renders its page when the pool
\* runs it, and it resolves the location when writePage is called
ComputedStep ==
    \/ \E i \in HandlerIds : HandlerBegins(i)
    \/ \E i \in HandlerIds : WritePage(i)

\* the guard of ComputedStep
ComputedStepEnabled ==
    \E i \in HandlerIds :
        \/ i \in 1..Len(pending) /\ pending[i].state = "running" /\ i \notin Started
        \/ i \in Started /\ jobs[i].step = "write"

\* every download and every write returns, and a handler that can compute
\* does (weak fairness of ComputedStep, stated with its guard)
ExportFairSpec ==
    /\ ExportSpec
    /\ WF_vars(AwaitedStep)
    /\ ([]<>(~ComputedStepEnabled) \/ []<><<ComputedStep>>_vars)


(***************************************************************************)
(* The remote workspace as a page tree (used to state the properties)      *)
(***************************************************************************)
IsPage(h) == W.kind[h] = "child_page"

\* the complete block tree below block h, children populated at every level
RECURSIVE FullTree(_)
FullTree(h) ==
    [i \in 1..Len(W.kids[h]) |->
        LET k == W.kids[h][i]
        IN IF W.kids[k] # <<>> THEN WithChildren(ApiBlock(k), FullTree(k)) ELSE ApiBlock(k)]

\* the blocks whose children belong to the block tree of h
RECURSIVE TreeBlocks(_)
TreeBlocks(h) ==
    {h} \cup UNION {TreeBlocks(W.kids[h][i]) : i \in {j \in 1..Len(W.kids[h]) : W.kids[W.kids[h][j]] # <<>>}}

\* the offsets at which the children of block b are listed
Offsets(b) ==
    {o \in 0..Len(W.kids[b]) : o = 0 \/ (o < Len(W.kids[b]) /\ o % ApiPageSize = 0)}

\* the list calls that fetch the whole block tree of page h
RequiredLists(h) == UNION {{<<h, b, off>> : off \in Offsets(b)} : b \in TreeBlocks(h)}

\* the child pages whose child_page block lies in the content of h itself
RECURSIVE OwnPages(_)
OwnPages(h) ==
    UNION {IF IsPage(W.kids[h][i]) THEN {W.kids[h][i]} ELSE OwnPages(W.kids[h][i])
           : i \in 1..Len(W.kids[h])}

Pages == {h \in Hexes : IsPage(h)}

HasParent(h) == \E q \in Pages : h \in OwnPages(q)

ParentOf(h) == CHOOSE q \in Pages : h \in OwnPages(q)

ShownTitle(h) == IF W.title[h] = "" THEN "untitled" ELSE W.title[h]

\* the titles of the true ancestors of page h, from the root down to its parent
RECURSIVE AncestorTitles(_)
AncestorTitles(h) ==
    IF HasParent(h) THEN Append(AncestorTitles(ParentOf(h)), ShownTitle(ParentOf(h)))
    ELSE <<>>

Depth(h) == Len(AncestorTitles(h))

\* every page has at most one parent
IsTreeWorld == \A h \in Pages : Cardinality({q \in Pages : h \in OwnPages(q)}) <= 1

SettledStates == {"fulfilled", "rejected"}

\* the first entry with this id that queue.shift() returned
FirstShifted(id) ==
    shifted[CHOOSE k \in 1..Len(shifted) :
               /\ shifted[k].id = id
               /\ \A m \in 1..(k - 1) : shifted[m].id # id]

(***************************************************************************)
(* Properties                                                              *)
(***************************************************************************)

\* C1: the handler is dispatched at most once per page id, a page is
\* hydrated at most once, and the node handed to the handler carries the
\* path of the first queue entry with its id that was dequeued.
Thm_C1_HandledOnce ==
    /\ \A i, j \in 1..Len(pending) :
          pending[i].node.id = pending[j].node.id => i = j
    /\ \A i, j \in 1..Len(loaded) : loaded[i] = loaded[j] => i = j
    /\ \A i \in 1..Len(pending) :
          pending[i].node.path = FirstShifted(pending[i].node.id).path
    /\ \A k \in 1..Len(shifted) : \E i \in 1..Len(loaded) : loaded[i] = shifted[k].id
    /\ pc \in {"awaitAll", "done"} =>
          \A k \in 1..Len(loaded) :
              (\A f \in loadFailed : f.id # loaded[k]) =>
                  \E i \in 1..Len(pending) : pending[i].node.id = loaded[k]

\* page G was dequeued under two different paths and handled once
Wit_C1_SharedPageHandled ==
    /\ pc = "done"
    /\ \E i \in 1..Len(pending) : pending[i].node.id = Plain("G")
    /\ \E j, k \in 1..Len(shifted) :
          /\ shifted[j].id = Plain("G")
          /\ shifted[k].id = Plain("G")
          /\ shifted[j].path # shifted[k].path

\* C2: in a page tree every handled page carries the titles of its true
\* ancestors, from the root down to its parent, as its path.
CE_C2_TrueAncestorPath ==
    (IsTreeWorld /\ rootPageId # NoRoot) =>
        \A i \in 1..Len(pending) :
            pending[i].node.path = AncestorTitles(pending[i].node.id.hex)

\* C3: with an explicit root, traverse never rejects, whatever the handlers do.
CE_C3_HandlerFailureCaught ==
    rootPageId # NoRoot => traverseResult # "rejected"

\* C4: once traverse has settled, the queue is empty and every dispatched
\* handler has settled.
CE_C4_SettlesAfterHandlers ==
    traverseResult # "pending" =>
        /\ queue = <<>>
        /\ \A i \in 1..Len(pending) : pending[i].state \in SettledStates

CE_C6_BreadthFirst ==
    (IsTreeWorld /\ rootPageId # NoRoot) =>
        \A i, j \in 1..Len(loaded) :
            i < j => Depth(loaded[i].hex) <= Depth(loaded[j].hex)

\* C7: a page whose handler was dispatched has its whole nested block tree,
\* every list call of that tree has returned, and no call of its load failed.
Thm_C7_FullTreeBeforeHandler ==
    \A i \in 1..Len(pending) :
        LET node == pending[i].node
        IN /\ node.blocks = FullTree(node.id.hex)
           /\ RequiredLists(node.id.hex) \subseteq listed
           /\ \A f \in loadFailed : f.id # node.id

\* page A of the three-level tree is handled with its paginated, nested tree,
\* and another page was dropped because a list call failed three times
Wit_C7_NestedTreeHandled ==
    /\ world = 1
    /\ \E i \in 1..Len(pending) :
          /\ pending[i].node.id = Plain("A")
          /\ pending[i].state = "running"
          /\ \E b \in 1..Len(pending[i].node.blocks) :
                HasChildrenField(pending[i].node.blocks[b])
    /\ \E f \in loadFailed : f.stage = "list" /\ f.attempts = MAX_RETRIES

\* C8: at most 3 attempts; the sleeps before attempt 2 and 3 are 500 ms and
\* 1000 ms; a call that fails with a retryable error is thrown on the third
\* attempt, after both sleeps; a returned call made no attempt after the
\* successful one.
Thm_C8_ThreeAttemptsBackoff ==
    LET slept(n) == [i \in 1..n |-> IF i = 1 THEN 500 ELSE IF i = 2 THEN 1000 ELSE 0]
    IN /\ call.attempt <= 3
       /\ call.status = "calling" => call.sleeps = slept(call.attempt - 1)
       /\ call.status = "sleeping" => call.attempt <= 2 /\ call.sleeps = slept(call.attempt)
       /\ (lastCall.outcome = "thrown" /\
           lastCall.error \in {ErrRateLimited, ErrUnavailable, ErrConnReset, ErrFetchFailed,
                               ErrCauseDns, ErrAggregate}) =>
               /\ lastCall.attempts = 3
               /\ lastCall.sleeps = <<500, 1000>>
       /\ lastCall.outcome = "returned" =>
               /\ lastCall.attempts <= 3
               /\ lastCall.sleeps = slept(lastCall.attempts - 1)

\* a call failed with 503 on its third attempt and was thrown
Wit_C8_Exhausted ==
    /\ lastCall.outcome = "thrown"
    /\ lastCall.error = ErrUnavailable
    /\ lastCall.attempts = 3
    /\ lastCall.sleeps = <<500, 1000>>

\* C9: an auth, not-found or validation error is never followed by a sleep
\* or another attempt: the call is thrown on the attempt the error occurs.
Thm_C9_NonRetryablePropagates ==
    /\ call.status = "sleeping" =>
          call.error \notin {ErrUnauthorized, ErrNotFound, ErrValidation, ErrPlain}
    /\ (lastCall.outcome = "thrown" /\
        lastCall.error \in {ErrUnauthorized, ErrNotFound, ErrValidation, ErrPlain}) =>
            Len(lastCall.sleeps) = lastCall.attempts - 1

\* a not-found error on the second attempt was thrown after one sleep
Wit_C9_ThrownOnSecondAttempt ==
    /\ lastCall.outcome = "thrown"
    /\ lastCall.error = ErrNotFound
    /\ lastCall.attempts = 2
    /\ lastCall.sleeps = <<500>>

\* C10: when the retrieve of the explicit root page fails on all three
\* attempts, traverse does not resolve.
CE_C10_RootFailureAborts ==
    (/\ rootPageId # NoRoot
     /\ \E f \in loadFailed :
           /\ f.id = normalizeId(rootPageId)
           /\ f.stage = "retrieve"
           /\ f.attempts = MAX_RETRIES) =>
        traverseResult # "resolved"

\* the steps of traverse up to Promise.all: every step but those of handlers
DiscoveryStep ==
    \/ StartWithRoot
    \/ StartDiscovery
    \/ AttemptSleeps
    \/ Wake
    \/ SearchThrows
    \/ LoadThrows
    \/ SearchMore
    \/ SearchDone
    \/ RetrieveFull
    \/ RetrievePartial
    \/ ListMore
    \/ ListDone

\* every API call and every sleep eventually returns; a handler may run for
\* ever
DiscoverySpec == Spec /\ WF_vars(DiscoveryStep)

\* C12: the number of handlers running is at most max(1, concurrency).
Thm_C12_HandlerPoolBound ==
    Running(pending) <= (IF concurrency > 1 THEN concurrency ELSE 1)

\* with concurrency 2, two handlers run and a third one waits for a slot
Wit_C12_PoolFull ==
    /\ concurrency = 2
    /\ Running(pending) = 2
    /\ Waiting(pending) # {}

\* C14: the dequeue loop reaches its end (the queue drained, every page
\* hydrated and its children queued) even when no handler ever returns.
Thm_C14_LoopNeverWaits == <>(pc \in {"awaitAll", "done"})

\* B was hydrated, its child queued and its handler dispatched while the
\* handler of A still runs and that of B waits for the slot
Wit_C14_DiscoveryDuringHandler ==
    /\ Len(pending) >= 2
    /\ pending[1].state = "running"
    /\ pending[2].state = "waiting"
    /\ pending[2].node.hasChildPages
    /\ pc \in {"retrieve", "list"}

(***************************************************************************)
(* PagePathPlanner.resolve on its own                                      *)
(***************************************************************************)
\* longest page title that is explored
MaxTitleLen == 2

\* an ordinary character, a dot, a hyphen, a blank and an illegal character
TitleChars == {"a", ".", "-", " ", "/"}

\* the texts of at most n characters
TextsUpTo(n) == UNION {[1..k -> TitleChars] : k \in 0..n}

\* the ancestor titles a page can carry: none (a top-level page), one parent
\* or a grandparent and a parent
AncestorPaths ==
    {<<>>} \cup {<<t>> : t \in TextsUpTo(1)} \cup {<<<<"a">>, <<".", "-">>>>}

PathInputs ==
    [id : {Plain("A")}, title : TextsUpTo(MaxTitleLen), path : AncestorPaths,
     type : {"page"}, hasChildPages : BOOLEAN, blocks : {<<>>}]

PathInit ==
    /\ world = 1
    /\ rootPageId = NoRoot
    /\ concurrency = 1
    /\ faults = {}
    /\ pc = "resolve"
    /\ queue = <<>>
    /\ visited = {}
    /\ current = NoItem
    /\ build = NoBuild
    /\ call = NoCall
    /\ lastCall = NoSettled
    /\ discovery = NoDiscovery
    /\ pending = <<>>
    /\ traverseResult = "pending"
    /\ shifted = <<>>
    /\ loaded = <<>>
    /\ listed = {}
    /\ loadFailed = {}
    /\ \E page \in PathInputs :
          planned = [page |-> page, location |-> <<>>, parent |-> <<>>]
    /\ ExportIdle

\* pathPlanner.resolve(page)
Resolve ==
    /\ pc = "resolve"
    /\ planned.location = <<>>
    /\ planned' = [planned EXCEPT !.location = resolve(planned.page)]
    /\ UNCHANGED <<exportVars, world, rootPageId, concurrency, faults, pc, queue, visited,
                   current, build, call, lastCall, discovery, pending,
                   traverseResult, shifted, loaded, listed, loadFailed>>

\* the traversal hands on a child page without child pages of the page that
\* was planned: path: [...current.path, node.title]
ResolveChild ==
    /\ pc = "resolve"
    /\ planned.location # <<>>
    /\ planned.parent = <<>>
    /\ planned.page.hasChildPages
    /\ \E title \in TextsUpTo(1) :
          LET child == [id |-> Plain("B"), title |-> title,
                        path |-> Append(planned.page.path, planned.page.title),
                        type |-> "page", hasChildPages |-> FALSE, blocks |-> <<>>]
          IN planned' = [page |-> child, location |-> resolve(child),
                         parent |-> [page |-> planned.page,
                                     location |-> planned.location]]
    /\ UNCHANGED <<exportVars, world, rootPageId, concurrency, faults, pc, queue,
                   visited, current, build, call, lastCall, discovery, pending,
                   traverseResult, shifted, loaded, listed, loadFailed>>

PathNext == Resolve \/ ResolveChild

PathSpec == PathInit /\ [][PathNext]_vars

\* the sanitized title of the page that was planned
PlannedTitle ==
    LET segments == sanitizeSegments(Append(planned.page.path, planned.page.title))
    IN segments[Len(segments)]

\* the directory of the parent of the page that was planned
PlannedParentDirectory ==
    LET segments == sanitizeSegments(Append(planned.page.path, planned.page.title))
    IN PathJoin(BaseDir \o SubSeq(segments, 1, Len(segments) - 1))

\* C20: a page with child pages or with an empty path gets its own directory,
\* named after its sanitized title, below the directory of its parent and its
\* file <title>.md in it; every other page gets the file <title>.md in the
\* directory of its parent.
CE_C20_DirectoryOwnership ==
    planned.location # <<>> =>
        IF planned.page.hasChildPages \/ planned.page.path = <<>>
        THEN /\ planned.location.directory =
                    Append(PlannedParentDirectory, PlannedTitle)
             /\ planned.location.filePath =
                    Append(planned.location.directory, PlannedTitle \o MdExtension)
        ELSE /\ planned.location.directory = PlannedParentDirectory
             /\ planned.location.filePath =
                    Append(PlannedParentDirectory, PlannedTitle \o MdExtension)

(***************************************************************************)
(* Properties of runExport                                                 *)
(***************************************************************************)
\* the handler invocations that are past collectAssets in a normal run
Collected == {i \in Started : jobs[i].step \notin {"rendered", "downloading"}}

Finished == {i \in Started : jobs[i].step = "done"}

\* the download tasks that were started for the plan of job i with this source
Fetches(i, url) ==
    {d \in 1..Len(downloads) :
        /\ downloads[d].job = i
        /\ downloads[d].plan.originalUrl = url
        /\ downloads[d].state # "waiting"}

\* C11: no page-level failure terminates the run, and at the end of the run
\* the failed count holds every page that could not be loaded and every page
\* whose handler failed.
CE_C11_FailuresCounted ==
    /\ traverseResult # "rejected"
    /\ traverseResult = "resolved" =>
          stats.failed = Cardinality(loadFailed) +
                         Cardinality({i \in Finished : jobs[i].outcome = "failed"})

\* C13: the downloads in flight, over all pages, are at most
\* max(1, downloadConcurrency), whatever the handler concurrency is.
Thm_C13_DownloadPoolBound ==
    Cardinality(InFlight(downloads)) <=
        (IF config.downloadConcurrency > 1 THEN config.downloadConcurrency ELSE 1)

\* two handlers run at once; a download of one page is in flight and a
\* download of the other page waits for the slot
Wit_C13_PagesShareTheLimit ==
    /\ concurrency = 2
    /\ \E d \in InFlight(downloads) : \E q \in Queued(downloads) :
          downloads[d].job # downloads[q].job

\* C15: after collectAssets every plan was attempted, the descriptors given
\* to the writer are exactly those of the downloads that succeeded, the
\* Markdown links every planned asset, a page that was written carries that
\* Markdown, and a handler fails only when a write was rejected.
Thm_C15_FailedDownloadsLeftOut ==
    \A i \in Collected :
        ~config.dryRun =>
            LET results == TasksOf(downloads, i)
                plans == jobs[i].markdown.assets
                ok == SelectSeq(results, LAMBDA t : t.state = "ok")
                filePath == jobs[i].location.filePath
            IN /\ \A k \in 1..Len(plans) :
                     \E r \in 1..Len(results) :
                        /\ results[r].plan = plans[k]
                        /\ results[r].state \in {"ok", "failed"}
               /\ jobs[i].assets =
                     [k \in 1..Len(ok) |->
                        [plan |-> ok[k].plan, data |-> ok[k].plan.originalUrl.name]]
               /\ jobs[i].markdown.content.links =
                     [k \in 1..Len(plans) |-> <<<<".">>>> \o plans[k].localPath]
               /\ jobs[i].outcome = "written" =>
                     disk.files[filePath].data = jobs[i].markdown.content
               /\ jobs[i].outcome = "failed" =>
                     \/ jobs[i].failedAsset # 0
                     \/ Exists(filePath) /\ disk.files[filePath].readOnly

\* of the two images of page A one download failed: the page is written
\* with both links and the one descriptor
Wit_C15_OneOfTwoFailed ==
    \E i \in Finished :
        /\ jobs[i].outcome = "written"
        /\ Len(jobs[i].markdown.assets) = 2
        /\ Len(jobs[i].assets) = 1
        /\ \E d \in 1..Len(downloads) :
              downloads[d].job = i /\ downloads[d].state = "failed"

\* C16: for every source the plans of a page name, collectAssets performs
\* exactly one fetch.
CE_C16_OneFetchPerSource ==
    \A i \in Collected :
        ~config.dryRun =>
            \A k \in 1..Len(jobs[i].markdown.assets) :
                Cardinality(Fetches(i, jobs[i].markdown.assets[k].originalUrl)) = 1

\* C17: without force, a writePage call that finds its Markdown file leaves
\* the bytes of the file as they were, writes no file at all and reports
\* that the write was skipped.
Thm_C17_NoOverwriteWithoutForce ==
    \A i \in Finished :
        (~config.force /\ jobs[i].existed) =>
            /\ jobs[i].wrote = {}
            /\ <<disk.files[jobs[i].location.filePath].data>> = jobs[i].seen
            /\ jobs[i].outcome \in {"skipped", "dry"}

\* page A was exported before: its handler downloaded assets, found the
\* file and skipped the write
Wit_C17_ExistingPageSkipped ==
    \E i \in Finished :
        /\ ~config.force
        /\ ~config.dryRun
        /\ jobs[i].existed
        /\ jobs[i].assets # <<>>
        /\ jobs[i].outcome = "skipped"

\* C18: in a dry run the file system stays as it was at the start.
Thm_C18_DryRunWritesNothing == config.dryRun => disk = config.diskAtStart

\* a dry run in which writePage was called for both pages has ended
Wit_C18_DryRunCompleted ==
    /\ config.dryRun
    /\ traverseResult = "resolved"
    /\ world = 4
    /\ Finished = {1, 2}
    /\ \A i \in Finished : jobs[i].outcome = "dry"

\* C19: when the write of one asset of a page fails, the other assets given
\* to writePage are in place all the same.
CE_C19_AssetWritesIndependent ==
    \A i \in Finished :
        jobs[i].failedAsset # 0 =>
            \A k \in 1..Len(jobs[i].assets) :
                k # jobs[i].failedAsset =>
                    Exists(Destination(jobs[i], jobs[i].assets[k]))

\* C24: a page without child pages lies in the directory its parent owns,
\* whatever the title of the parent is.
CE_C24_LeafInParentDirectory ==
    planned.parent # <<>> =>
        planned.location.directory = planned.parent.location.directory

\* C25: sanitizing a sanitized segment gives the same segment, for the last
\* segment (the title) and for the interior ones (the ancestors).
CE_C25_SanitizeIdempotent ==
    planned.location # <<>> =>
        LET segments == sanitizeSegments(Append(planned.page.path, planned.page.title))
        IN sanitizeSegments(segments) = segments

\* the Markdown files on the disk
MarkdownFiles ==
    {p \in DOMAIN disk.files :
        LET name == p[Len(p)]
        IN Len(name) > 3 /\ SubSeq(name, Len(name) - 2, Len(name)) = MdExtension}

\* the export started on an empty disk, has ended, and the handler of each of
\* its first n pages has written its page
ExportedAll(n) ==
    /\ config.diskAtStart = EmptyDisk
    /\ traverseResult = "resolved"
    /\ \A i \in 1..n : i \in Finished /\ jobs[i].outcome = "written"

\* C21: the export of A with its only child page B, a leaf, leaves the
\* Markdown files A/A.md and A/B.md and no directory A/B; every page with
\* ancestors and without child pages that was written is a file in the
\* directory of its ancestor titles, and no directory has its name.
Thm_C21_LeafChildInParentDirectory ==
    /\ (world = 4 /\ ExportedAll(2)) =>
          /\ MarkdownFiles = {PathOfA, PathOfB}
          /\ <<OutDir, <<"A">>, <<"B">>>> \notin disk.dirs
    /\ \A i \in Finished :
          LET node == PlannerPage(pending[i].node)
          IN (jobs[i].outcome = "written" /\ node.path # <<>> /\ ~node.hasChildPages) =>
                /\ Exists(BaseDir \o node.path \o <<node.title \o MdExtension>>)
                /\ BaseDir \o node.path \o <<node.title>> \notin disk.dirs

\* A and its leaf child B were both written to an empty disk
Wit_C21_BothPagesWritten == world = 4 /\ ExportedAll(2)

\* C22 as stated: the export of the single page A without child pages leaves
\* exactly the file A.md in the export root and no subdirectory.
CE_C22_LeafRootInExportRoot ==
    (world = 5 /\ ExportedAll(1)) =>
        /\ DOMAIN disk.files = {<<OutDir, <<"A", ".", "m", "d">>>>}
        /\ disk.dirs \subseteq {<<OutDir>>}

\* C22 amended: the export of the single page A without child pages leaves
\* exactly one file, A/A.md, in the directory A of the export root, which is
\* the only subdirectory.
Thm_C22_LeafRootOwnsDirectory ==
    (world = 5 /\ ExportedAll(1)) =>
        /\ DOMAIN disk.files = {PathOfA}
        /\ disk.dirs = {<<OutDir>>, <<OutDir, <<"A">>>>}

\* the single page A was written to an empty disk
Wit_C22_SinglePageWritten == world = 5 /\ ExportedAll(1)

\* C23: two pages of one run never get the same filePath.
CE_C23_DistinctFilePaths ==
    \A i, j \in Started :
        (i # j /\ jobs[i].location # <<>> /\ jobs[j].location # <<>>) =>
            jobs[i].location.filePath # jobs[j].location.filePath

(***************************************************************************)
(* renderPage on its own: one render pass over a page of media blocks      *)
(***************************************************************************)
\* most media blocks on the page that is rendered
MaxBlocks == 3

\* captions as richTextArrayToMarkdown joins them
Captions == {<<>>, <<"D">>, <<"a", "/", "b">>, <<".", ".">>}

\* a file with an extension, a file without one below a dotted directory,
\* a file name that ends in a dot
Sources ==
    {UrlAt("u1", <<"/", "d", "/", "p", ".", "png">>),
     UrlAt("u2", <<"/", "d", ".", "x", "/", "p">>),
     UrlAt("u3", <<"/", "p", ".">>)}

\* the media blocks a page is made of: type and block[type]
BlockKinds ==
    [type : {"image"},
     payload : [source : Sources \ {UrlAt("u3", <<"/", "p", ".">>)},
                hasCaption : {TRUE}, caption : Captions]]
    \cup
    [type : {"pdf"},
     payload : [source : {UrlAt("u1", <<"/", "d", "/", "p", ".", "png">>), UrlInvalid},
                hasCaption : {FALSE}, caption : {<<>>}]]
    \cup
    [type : {"pdf"},
     payload : [source : {UrlAt("u3", <<"/", "p", ".">>), NoSource},
                hasCaption : {TRUE}, caption : {<<>>, <<"D">>}]]

\* the blocks of the page, with their ids in the order of the page
RenderInputs ==
    {[k \in 1..Len(kinds) |->
         [object |-> "block", id |-> Dashed(ToString(k)), type |-> kinds[k].type,
          has_children |-> FALSE, payload |-> kinds[k].payload]] :
     kinds \in UNION {[1..n -> BlockKinds] : n \in 0..MaxBlocks}}

RenderInit ==
    /\ world = 1
    /\ rootPageId = NoRoot
    /\ concurrency = 1
    /\ faults = {}
    /\ pc = "render"
    /\ queue = <<>>
    /\ visited = {}
    /\ current = NoItem
    /\ build = NoBuild
    /\ call = NoCall
    /\ lastCall = NoSettled
    /\ discovery = NoDiscovery
    /\ pending = <<>>
    /\ traverseResult = "pending"
    /\ shifted = <<>>
    /\ loaded = <<>>
    /\ listed = {}
    /\ loadFailed = {}
    /\ \E blocks \in RenderInputs :
          planned = [page |-> [id |-> Plain("A"), title |-> "A", path |-> <<>>,
                               type |-> "page", hasChildPages |-> FALSE,
                               blocks |-> blocks],
                     location |-> <<>>, parent |-> <<>>]
    /\ ExportIdle

\* renderer.renderPage(node)
RenderPage ==
    /\ pc = "render"
    /\ jobs = <<>>
    /\ jobs' = <<[step |-> "rendered", markdown |-> renderPage(planned.page),
                  assets |-> <<>>, location |-> <<>>, next |-> 0,
                  outcome |-> "", wrote |-> {}, existed |-> FALSE,
                  seen |-> <<>>, failedAsset |-> 0]>>
    /\ UNCHANGED <<planned, config, stats, disk, downloads, world, rootPageId,
                   concurrency, faults, pc, queue, visited, current, build, call,
                   lastCall, discovery, pending, traverseResult, shifted, loaded,
                   listed, loadFailed>>

RenderNext == RenderPage

RenderSpec == RenderInit /\ [][RenderNext]_vars

\* the asset plans of the render pass
Plans == IF pc = "render" /\ jobs # <<>> THEN jobs[1].markdown.assets ELSE <<>>

\* the block a plan was made for
BlockOf(plan) ==
    LET blocks == planned.page.blocks
    IN blocks[CHOOSE k \in 1..Len(blocks) : blocks[k].id = plan.id]

\* the file name of a plan whose localPath is img/<name>
NameOf(plan) == plan.localPath[Len(plan.localPath)]

\* the file names given to the plans before plan k
NamesBefore(k) == {NameOf(Plans[j]) : j \in 1..(k - 1)}

\* the extension the file of a plan gets
ExtensionOf(plan) == guessExtension(plan.originalUrl, plan.type)

\* the candidate name of a plan: the sanitized base name and the extension
BaseOf(plan) ==
    sanitizeFileName(IF BlockOf(plan).payload.hasCaption
                     THEN BlockOf(plan).payload.caption
                     ELSE IdText(plan.id))

\* C27: in one renderPage pass the localPath values of all asset plans are
\* pairwise distinct, whatever the captions, ids and URLs of the media blocks
Thm_C27_LocalPathsDistinct ==
    \A i, j \in 1..Len(Plans) : i # j => Plans[i].localPath # Plans[j].localPath

\* two blocks with the same candidate name were rendered
Wit_C27_SameCandidateTwice ==
    \E i, j \in 1..Len(Plans) :
        /\ i < j
        /\ BaseOf(Plans[i]) \o ExtensionOf(Plans[i]) =
           BaseOf(Plans[j]) \o ExtensionOf(Plans[j])

\* C28: a plan whose candidate name <base><ext> is already used in the pass
\* is named <base>-<n><ext> with the smallest n >= 2 whose name is not yet
\* used (x.png, x-2.png, x-3.png); an unused candidate is kept
Thm_C28_SmallestFreeSuffix ==
    \A k \in 1..Len(Plans) :
        LET base == BaseOf(Plans[k])
            ext == ExtensionOf(Plans[k])
            numbered(n) == base \o <<"-", ToString(n)>> \o ext
        IN /\ Len(Plans[k].localPath) = 2
           /\ Plans[k].localPath[1] = <<"img">>
           /\ IF base \o ext \notin NamesBefore(k)
              THEN NameOf(Plans[k]) = base \o ext
              ELSE \E n \in 2..(k + 1) :
                      /\ NameOf(Plans[k]) = numbered(n)
                      /\ numbered(n) \notin NamesBefore(k)
                      /\ \A m \in 2..(n - 1) : numbered(m) \in NamesBefore(k)

\* three blocks with the same candidate: d.png, d-2.png, d-3.png
Wit_C28_ThirdOfThree ==
    /\ Len(Plans) = 3
    /\ NameOf(Plans[1]) = <<"d", ".", "png">>
    /\ NameOf(Plans[2]) = <<"d", "-", "2", ".", "png">>
    /\ NameOf(Plans[3]) = <<"d", "-", "3", ".", "png">>

\* C29: the base name of an asset file is the sanitized caption of the block
\* when the caption is not empty and the sanitized block id otherwise (stated
\* of the first plan of the pass, whose candidate name is never taken)
CE_C29_BaseNameFromCaptionOrId ==
    Len(Plans) >= 1 =>
        LET block == BlockOf(Plans[1])
            base == sanitizeFileName(IF block.payload.caption # <<>>
                                     THEN block.payload.caption
                                     ELSE IdText(block.id))
        IN NameOf(Plans[1]) = base \o ExtensionOf(Plans[1])

\* C30: every localPath is img/<name> with no path separator in <name>, the
\* write destination is a file of the img directory next to the page file,
\* and every asset reference of the Markdown starts with ./img/
Thm_C30_AssetsInMediaFolder ==
    /\ \A k \in 1..Len(Plans) :
          LET localPath == Plans[k].localPath
              pageDir == BaseDir \o <<<<"A">>>>
          IN /\ Len(localPath) = 2
             /\ localPath[1] = <<"img">>
             /\ localPath[2] # <<>>
             /\ localPath[2] \notin {<<".">>, <<".", ".">>}
             /\ \A c \in 1..Len(localPath[2]) : localPath[2][c] \notin {"/", "\\"}
             /\ PathJoin(pageDir \o localPath) = pageDir \o <<<<"img">>, localPath[2]>>
    /\ pc = "render" /\ jobs # <<>> =>
          \A k \in 1..Len(jobs[1].markdown.content.links) :
             LET link == jobs[1].markdown.content.links[k]
             IN /\ Len(link) = 3
                /\ link[1] = <<".">>
                /\ link[2] = <<"img">>
                /\ link[3] = NameOf(Plans[k])

\* a block whose caption holds a path separator was rendered
Wit_C30_CaptionWithSeparator ==
    \E k \in 1..Len(Plans) :
        LET caption == BlockOf(Plans[k]).payload.caption
        IN \E c \in 1..Len(caption) : caption[c] = "/"

(***************************************************************************)
(* richTextItemToMarkdown on its own: one rich-text segment                *)
(***************************************************************************)
\* the grave accent that opens and closes a code span
Backtick == "backtick"

\* text wrapped into the opening and the closing mark
Wrap(open, text, close) == <<open>> \o text \o <<close>>

\* richTextItemToMarkdown(segment); href <<>> is null, expression <<>> is
\* undefined
richTextItemToMarkdown(segment) ==
    LET plain == segment.plain_text
        math == IF segment.type = "equation" /\ segment.expression # <<>>
                THEN Wrap("$", segment.expression, "$")
                ELSE plain
        linked == IF segment.href # <<>>
                  THEN <<"[">> \o math \o <<"](">> \o segment.href \o <<")">>
                  ELSE math
        bold == IF segment.annotations.bold THEN Wrap("**", linked, "**") ELSE linked
        italic == IF segment.annotations.italic THEN Wrap("*", bold, "*") ELSE bold
        strikethrough == IF segment.annotations.strikethrough
                         THEN Wrap("~~", italic, "~~") ELSE italic
        underline == IF segment.annotations.underline
                     THEN Wrap("<u>", strikethrough, "</u>") ELSE strikethrough
    IN IF segment.annotations.code THEN Wrap(Backtick, linked, Backtick) ELSE underline

Annotations ==
    [code : BOOLEAN, bold : BOOLEAN, italic : BOOLEAN, strikethrough : BOOLEAN,
     underline : BOOLEAN]

\* text segments and equation segments, with and without a link target
Segments ==
    [plain_text : {<<"t">>}, annotations : Annotations, href : {<<>>, <<"h">>},
     type : {"text"}, expression : {<<>>}]
    \cup
    [plain_text : {<<"t">>}, annotations : Annotations, href : {<<>>, <<"h">>},
     type : {"equation"}, expression : {<<>>, <<"e">>}]

RichTextInit ==
    /\ world = 1
    /\ rootPageId = NoRoot
    /\ concurrency = 1
    /\ faults = {}
    /\ pc = "richtext"
    /\ queue = <<>>
    /\ visited = {}
    /\ current = NoItem
    /\ build = NoBuild
    /\ call = NoCall
    /\ lastCall = NoSettled
    /\ discovery = NoDiscovery
    /\ pending = <<>>
    /\ traverseResult = "pending"
    /\ shifted = <<>>
    /\ loaded = <<>>
    /\ listed = {}
    /\ loadFailed = {}
    /\ planned = NoPlan
    /\ config = [dryRun |-> FALSE, force |-> FALSE, downloadConcurrency |-> 1,
                 diskAtStart |-> EmptyDisk]
    /\ \E segment \in Segments : jobs = <<[step |-> "segment", segment |-> segment]>>
    /\ stats = ZeroStats
    /\ disk = EmptyDisk
    /\ downloads = <<>>

\* segments.map(richTextItemToMarkdown)
RenderSegment ==
    /\ pc = "richtext"
    /\ jobs[1].step = "segment"
    /\ jobs' = <<[step |-> "text", segment |-> jobs[1].segment,
                  markdown |-> richTextItemToMarkdown(jobs[1].segment)]>>
    /\ UNCHANGED <<planned, config, stats, disk, downloads, world, rootPageId,
                   concurrency, faults, pc, queue, visited, current, build, call,
                   lastCall, discovery, pending, traverseResult, shifted, loaded,
                   listed, loadFailed>>

RichTextNext == RenderSegment

RichTextSpec == RichTextInit /\ [][RichTextNext]_vars

\* C31: a segment is rendered by wrapping its text (for an equation segment
\* $expression$) into backticks first when code is set, then into the bold,
\* italic, strikethrough and underline marks, bold innermost and underline
\* outermost, and last into [text](href) when a link target is present
CE_C31_WrappersThenLink ==
    (pc = "richtext" /\ jobs[1].step = "text") =>
        LET segment == jobs[1].segment
            math == IF segment.type = "equation" /\ segment.expression # <<>>
                    THEN Wrap("$", segment.expression, "$")
                    ELSE segment.plain_text
            code == IF segment.annotations.code THEN Wrap(Backtick, math, Backtick) ELSE math
            bold == IF segment.annotations.bold THEN Wrap("**", code, "**") ELSE code
            italic == IF segment.annotations.italic THEN Wrap("*", bold, "*") ELSE bold
            strikethrough == IF segment.annotations.strikethrough
                             THEN Wrap("~~", italic, "~~") ELSE italic
            underline == IF segment.annotations.underline
                         THEN Wrap("<u>", strikethrough, "</u>") ELSE strikethrough
        IN jobs[1].markdown =
              IF segment.href # <<>>
              THEN <<"[">> \o underline \o <<"](">> \o segment.href \o <<")">>
              ELSE underline

\* the run is over: the traversal returned and every handler settled
RunOver == traverseResult = "resolved" /\ Started = Finished

\* C32: after a run into an empty directory every downloaded asset that was
\* passed to a writePage that wrote its page is on disk at its planned path
\* with the bytes that were downloaded for that page, also for leaf siblings
\* that are written into one directory
CE_C32_AssetsOfThePageOnDisk ==
    (RunOver /\ config.diskAtStart = EmptyDisk) =>
        \A i \in Finished :
            jobs[i].outcome = "written" =>
                \A k \in 1..Len(jobs[i].assets) :
                    LET destination == Destination(jobs[i], jobs[i].assets[k])
                    IN /\ Exists(destination)
                       /\ disk.files[destination].data = jobs[i].assets[k].data

\* C36: with force=false, of two pages that resolve to one filePath and are
\* handled at the same time at most one writes the Markdown file
CE_C36_OneWriterPerFile ==
    ~config.force =>
        \A i, j \in Started :
            (i # j /\ jobs[i].location # <<>> /\ jobs[j].location # <<>> /\
             jobs[i].location.filePath = jobs[j].location.filePath) =>
                ~(jobs[i].location.filePath \in jobs[i].wrote /\
                  jobs[j].location.filePath \in jobs[j].wrote)

\* C38: when runExport finishes, total = success + failed and skipped = 0; a
\* page whose write was skipped because the file exists is a success
Thm_C38_SkipsCountAsSuccess ==
    RunOver =>
        /\ stats.total = stats.success + stats.failed
        /\ stats.skipped = 0
        /\ stats.total = Cardinality(Finished)
        /\ stats.failed = Cardinality({i \in Finished : jobs[i].outcome = "failed"})
        /\ stats.success =
              Cardinality({i \in Finished :
                              jobs[i].outcome \in {"written", "skipped", "dry"}})

\* the run is over and the write of a page was skipped for an existing file
Wit_C38_RunWithSkippedPage ==
    /\ RunOver
    /\ ~config.force
    /\ \E i \in Finished : jobs[i].outcome = "skipped" /\ jobs[i].existed

\* C39: every handler that was dispatched settles in the end, whatever the
\* handler pool and the download pool hold, provided every download and
\* every write returns
Thm_C39_HandlersSettle ==
    \A i \in HandlerIds : (i \in 1..Len(pending)) ~> (i \in Finished)

\* a handler holds its slot while its download waits for the download pool
Wit_C39_HandlerWaitsForDownload ==
    \E d \in 1..Len(downloads) :
        /\ downloads[d].state = "waiting"
        /\ pending[downloads[d].job].state = "running"
        /\ \E j \in 1..Len(pending) : pending[j].state = "waiting"

RECURSIVE Flatten(_)
\* the ids of a block tree, every block before its children
Flatten(blocks) ==
    IF blocks = <<>> THEN <<>>
    ELSE <<Head(blocks).id.hex>> \o
         (IF HasChildrenField(Head(blocks)) THEN Flatten(Head(blocks).children)
          ELSE <<>>) \o
         Flatten(Tail(blocks))

RECURSIVE Preorder(_)
\* the blocks the API lists below block h, level by level in API order
Preorder(h) ==
    LET below[n \in 0..Len(W.kids[h])] ==
            IF n = 0 THEN <<>>
            ELSE below[n - 1] \o <<W.kids[h][n]>> \o Preorder(W.kids[h][n])
    IN below[Len(W.kids[h])]

RECURSIVE SubBlocks(_)
\* the blocks of a block tree
SubBlocks(blocks) ==
    IF blocks = <<>> THEN {}
    ELSE {Head(blocks)} \cup
         (IF HasChildrenField(Head(blocks)) THEN SubBlocks(Head(blocks).children)
          ELSE {}) \cup
         SubBlocks(Tail(blocks))

\* C33: the blocks of a page that was handed to its handler hold every block
\* the API lists below the page exactly once and in API order, the children
\* of every block that reports has_children are populated, and the list calls
\* made for the page are those that page through every level to its end
Thm_C33_FullyHydrated ==
    \A i \in 1..Len(pending) :
        LET node == pending[i].node
        IN /\ Flatten(node.blocks) = Preorder(node.id.hex)
           /\ \A block \in SubBlocks(node.blocks) :
                 /\ block.has_children <=> HasChildrenField(block)
                 /\ block.has_children =>
                       [k \in 1..Len(block.children) |-> block.children[k].id.hex] =
                       W.kids[block.id.hex]
           /\ {made \in listed : made[1] = node.id.hex} = RequiredLists(node.id.hex)

\* page A of the three-level tree was hydrated: three blocks, one of them
\* with children of its own
Wit_C33_PagedAndNested ==
    /\ world = 1
    /\ \E i \in 1..Len(pending) :
          /\ pending[i].node.id = Plain("A")
          /\ Flatten(pending[i].node.blocks) = <<"p1", "B", "G", "C">>

\* the ids kept in the visited set and in the queue
KeptIds == visited \cup {queue[k].id : k \in 1..Len(queue)}

\* C34: the 32-character ids in the visited set and in the queue are kept
\* without hyphens, so that the two forms of an id are one key and a page is
\* handled once, and every retrieve and list call is made with the
\* hyphenated form of the id
Thm_C34_OneKeyPerId ==
    /\ \A id \in KeptIds : id.full => ~id.dashed
    /\ \A a, b \in KeptIds : (a.full /\ b.full /\ a.hex = b.hex) => a = b
    /\ \A i, j \in 1..Len(pending) :
          pending[i].node.id.hex = pending[j].node.id.hex => i = j
    /\ (pc \in {"retrieve", "list"} /\ call.status = "calling") =>
          (CallArgument.full => CallArgument.dashed)

\* the root was given with hyphens and is kept without them, and a nested
\* list call is made for one of its blocks
Wit_C34_DashedRootKeptPlain ==
    /\ rootPageId = Dashed("A")
    /\ Plain("A") \in visited
    /\ pc = "list"
    /\ call.status = "calling"
    /\ Len(build.stack) = 2

\* the step in which the catch of the loop logs "Failed to load page"
LoadFails == loadFailed' # loadFailed

\* C37: when loading a page fails, the traversal goes on with the entries
\* that are left in the queue; the handler of the failed page is never
\* invoked, the page stays in the visited set, and it is loaded once only
\* even when it is enqueued again later in the run
Thm_C37_FailedPageDropped ==
    /\ [](\A f \in loadFailed :
             /\ f.id \in visited
             /\ \A i \in 1..Len(pending) : pending[i].node.id # f.id
             /\ Cardinality({k \in 1..Len(loaded) : loaded[k] = f.id}) = 1)
    /\ [][LoadFails =>
             /\ traverseResult' = "pending"
             /\ shifted' \o queue' = shifted \o queue
             /\ pending' = pending
             /\ (queue' # <<>> => pc' = "retrieve")]_vars

\* loading page G failed, G came up in the queue again, and the page after
\* it was handled
Wit_C37_FailedPageSkippedLater ==
    /\ world = 3
    /\ pc = "awaitAll"
    /\ \E f \in loadFailed :
          /\ f.id = Plain("G")
          /\ Cardinality({k \in 1..Len(shifted) : shifted[k].id = f.id}) >= 2
    /\ \E i \in 1..Len(pending) : pending[i].node.id = Plain("C")

(***************************************************************************)
(* NotionExporter with downloadMedia: export runs exportPageRecursive for  *)
(* the root page R in outputDir and then for its child page K in the       *)
(* directory R; FileDownloader keeps the files it downloaded by URL.       *)
(* jobs holds the two calls, downloads the downloadedFiles of the          *)
(* FileDownloader in the order they were set.                              *)
(***************************************************************************)
\* most media links in the Markdown of a page
MaxMedia == 2

\* latest value of Date.now()
MaxClock == 2

MediaUrls == {"u1", "u2"}

\* the Markdown of a page: its media links, in order
MediaLinks == UNION {[1..n -> MediaUrls] : n \in 0..MaxMedia}

AttachmentsDir == <<"attachments">>

\* extractFileName(url) at the time now: <name>_<timestamp><ext>
extractFileName(url, now) == <<url, "_", ToString(now), ".", "png">>

\* the call exportPageRecursive(pageId, currentDir) that has not begun
ExporterCall(title, currentDir, links, hasChildren) ==
    [title |-> title, currentDir |-> currentDir, links |-> links,
     hasChildren |-> hasChildren, step |-> "waiting", next |-> 1,
     urlMapping |-> {}, markdown |-> <<>>]

ExporterInit ==
    /\ world = 1
    /\ rootPageId = Dashed("R")
    /\ concurrency = 1
    /\ faults = {}
    /\ pc = "exporter"
    /\ queue = <<>>
    /\ visited = {}
    /\ current = NoItem
    /\ build = NoBuild
    /\ call = NoCall
    /\ lastCall = NoSettled
    /\ discovery = NoDiscovery
    /\ pending = <<>>
    /\ traverseResult = "pending"
    /\ shifted = <<>>
    /\ loaded = <<>>
    /\ listed = {}
    /\ loadFailed = {}
    /\ planned = NoPlan
    /\ config = [dryRun |-> FALSE, force |-> FALSE, downloadConcurrency |-> 1,
                 diskAtStart |-> EmptyDisk]
    /\ \E ofR \in MediaLinks, ofK \in MediaLinks :
          jobs = <<ExporterCall(<<"R">>, <<OutDir>>, ofR, TRUE),
                   ExporterCall(<<"K">>, <<OutDir, <<"R">>>>, ofK, FALSE)>>
    /\ stats = ZeroStats
    /\ disk = [EmptyDisk EXCEPT !.dirs = MkdirRecursive(@, <<OutDir>>)]
    /\ downloads = <<>>

ExporterUnchanged ==
    UNCHANGED <<planned, config, stats, world, rootPageId, concurrency, faults, pc,
                queue, visited, current, build, call, lastCall, discovery, pending,
                traverseResult, shifted, loaded, listed, loadFailed>>

\* the page and its Markdown were fetched: with media links the download
\* loop starts, without any the file is written next
ExporterBegins(k) ==
    /\ pc = "exporter"
    /\ k \in 1..Len(jobs)
    /\ jobs[k].step = "waiting"
    /\ k > 1 => jobs[k - 1].step = "done"
    /\ jobs' = [jobs EXCEPT ![k].step = IF jobs[k].links = <<>> THEN "write" ELSE "media"]
    /\ UNCHANGED <<disk, downloads>>
    /\ ExporterUnchanged

\* the entries of downloadedFiles for the URL
Cached(url) == {d \in 1..Len(downloads) : downloads[d].originalUrl = url}

\* the download loop goes on with the media link after job.next
AfterMedia(job) ==
    [job EXCEPT !.next = @ + 1,
                !.step = IF job.next < Len(job.links) THEN "media" ELSE "write"]

\* downloadedFiles.has(url): downloadFile returns the entry of the URL
DownloadFileCached(k) ==
    /\ pc = "exporter"
    /\ k \in 1..Len(jobs)
    /\ jobs[k].step = "media"
    /\ LET url == jobs[k].links[jobs[k].next]
       IN /\ Cached(url) # {}
          /\ LET downloaded == downloads[CHOOSE d \in Cached(url) : TRUE]
             IN jobs' = [jobs EXCEPT ![k] =
                           AfterMedia([jobs[k] EXCEPT !.urlMapping =
                               {m \in @ : m[1] # url} \cup
                               {<<url, downloaded.relativePath>>}])]
    /\ UNCHANGED <<disk, downloads>>
    /\ ExporterUnchanged

\* the timestamps the files downloaded so far were named with
Timestamps == {downloads[d].timestamp : d \in 1..Len(downloads)}

\* downloadFile fetches the URL, writes the file into the attachments
\* directory of currentDir and records it
DownloadFileWrites(k) ==
    /\ pc = "exporter"
    /\ k \in 1..Len(jobs)
    /\ jobs[k].step = "media"
    /\ LET url == jobs[k].links[jobs[k].next]
           attachmentsDirPath == Append(jobs[k].currentDir, AttachmentsDir)
       IN /\ Cached(url) = {}
          /\ \E now \in 1..MaxClock :
                /\ \A t \in Timestamps : t <= now
                /\ LET fileName == extractFileName(url, now)
                       filePath == Append(attachmentsDirPath, fileName)
                       relativePath == <<AttachmentsDir, fileName>>
                   IN /\ disk' = [dirs |-> MkdirRecursive(disk.dirs, attachmentsDirPath),
                                  files |-> WriteFile(disk.files, filePath, url)]
                      /\ downloads' = Append(downloads,
                            [originalUrl |-> url, localPath |-> filePath,
                             relativePath |-> relativePath, timestamp |-> now])
                      /\ jobs' = [jobs EXCEPT ![k] =
                                    AfterMedia([jobs[k] EXCEPT !.urlMapping =
                                        {m \in @ : m[1] # url} \cup
                                        {<<url, relativePath>>}])]
    /\ ExporterUnchanged

\* the fetch fails after mkdir: downloadFile throws, the loop logs it and
\* the link keeps its URL
DownloadFileThrows(k) ==
    /\ pc = "exporter"
    /\ k \in 1..Len(jobs)
    /\ jobs[k].step = "media"
    /\ Cached(jobs[k].links[jobs[k].next]) = {}
    /\ disk' = [disk EXCEPT !.dirs =
                  MkdirRecursive(@, Append(jobs[k].currentDir, AttachmentsDir))]
    /\ jobs' = [jobs EXCEPT ![k] = AfterMedia(jobs[k])]
    /\ UNCHANGED downloads
    /\ ExporterUnchanged

\* replaceMediaUrls: every URL of urlMapping is replaced by its local path
replaceMediaUrls(links, urlMapping) ==
    [n \in 1..Len(links) |->
        IF \E m \in urlMapping : m[1] = links[n]
        THEN [rewritten |-> TRUE,
              target |-> (CHOOSE m \in urlMapping : m[1] = links[n])[2]]
        ELSE [rewritten |-> FALSE, target |-> links[n]]]

\* writeFile(join(currentDir, safeTitle + ".md"), markdown) and, with child
\* pages, mkdir(subDir) before the calls for the children
ExporterWrites(k) ==
    /\ pc = "exporter"
    /\ k \in 1..Len(jobs)
    /\ jobs[k].step = "write"
    /\ LET markdown == replaceMediaUrls(jobs[k].links, jobs[k].urlMapping)
           filePath == Append(jobs[k].currentDir, jobs[k].title \o MdExtension)
       IN /\ jobs' = [jobs EXCEPT ![k].step = "done", ![k].markdown = markdown]
          /\ disk' = [dirs |-> IF jobs[k].hasChildren
                               THEN MkdirRecursive(disk.dirs,
                                        Append(jobs[k].currentDir, jobs[k].title))
                               ELSE disk.dirs,
                      files |-> WriteFile(disk.files, filePath, markdown)]
    /\ UNCHANGED downloads
    /\ ExporterUnchanged

ExporterCalls == 1..2

ExporterNext ==
    \/ \E k \in ExporterCalls : ExporterBegins(k)
    \/ \E k \in ExporterCalls : DownloadFileCached(k)
    \/ \E k \in ExporterCalls : DownloadFileWrites(k)
    \/ \E k \in ExporterCalls : DownloadFileThrows(k)
    \/ \E k \in ExporterCalls : ExporterWrites(k)

ExporterSpec == ExporterInit /\ [][ExporterNext]_vars

\* C35: after an export with media download every rewritten media link of a
\* page points to a file in the attachments directory of the directory of
\* that page, also when pages in different directories name the same URL
CE_C35_RewrittenLinksResolve ==
    (pc = "exporter" /\ \A k \in 1..Len(jobs) : jobs[k].step = "done") =>
        \A k \in 1..Len(jobs) :
            \A n \in 1..Len(jobs[k].markdown) :
                LET link == jobs[k].markdown[n]
                IN link.rewritten =>
                      /\ link.target[1] = AttachmentsDir
                      /\ Exists(PathJoin(jobs[k].currentDir \o link.target))
====
